---- MODULE Spec2Model ----
(***************************************************************************)
(* Corrective RAG query path: the interactive session (augment.js), the    *)
(* Retriever (retrieval.js), the QueryAnalyzer (queryAnalyzer.js) and the  *)
(* WebSearcher (webSearch.js).                                             *)
(*                                                                         *)
(* A JavaScript string is a sequence of pieces, each piece a run of        *)
(* characters; its length is the sum of the lengths of its pieces.         *)
(* Strings the code looks inside (the query: toLowerCase, includes, trim)  *)
(* are written one character per piece.  A completion of the language      *)
(* model is written one lexeme per piece.                                  *)
(***************************************************************************)
EXTENDS Integers, Sequences, FiniteSets, TLC

(***************************************************************************)
(* JavaScript strings                                                      *)
(***************************************************************************)
Whitespace == {" ", "\n", "\t"}

RECURSIVE StrLen(_)
StrLen(s) == IF s = <<>> THEN 0 ELSE Len(Head(s)) + StrLen(Tail(s))

UpperToLower ==
  "A" :> "a" @@ "B" :> "b" @@ "C" :> "c" @@ "D" :> "d" @@ "E" :> "e" @@
  "F" :> "f" @@ "G" :> "g" @@ "H" :> "h" @@ "I" :> "i" @@ "J" :> "j" @@
  "K" :> "k" @@ "L" :> "l" @@ "M" :> "m" @@ "N" :> "n" @@ "O" :> "o" @@
  "P" :> "p" @@ "Q" :> "q" @@ "R" :> "r" @@ "S" :> "s" @@ "T" :> "t" @@
  "U" :> "u" @@ "V" :> "v" @@ "W" :> "w" @@ "X" :> "x" @@ "Y" :> "y" @@
  "Z" :> "z"

toLowerCase(s) ==
  [i \in 1..Len(s) |->
     IF s[i] \in DOMAIN UpperToLower THEN UpperToLower[s[i]] ELSE s[i]]

RECURSIVE trimStart(_)
trimStart(s) ==
  IF s # <<>> /\ Head(s) \in Whitespace THEN trimStart(Tail(s)) ELSE s

RECURSIVE trimEnd(_)
trimEnd(s) ==
  IF s # <<>> /\ s[Len(s)] \in Whitespace
  THEN trimEnd(SubSeq(s, 1, Len(s) - 1))
  ELSE s

trim(s) == trimEnd(trimStart(s))

includes(s, sub) ==
  \E i \in 0..(Len(s) - Len(sub)) : SubSeq(s, i + 1, i + Len(sub)) = sub

RECURSIVE join(_, _)
join(parts, sep) ==
  IF parts = <<>> THEN <<>>
  ELSE IF Len(parts) = 1 THEN Head(parts)
  ELSE Head(parts) \o sep \o join(Tail(parts), sep)

(***************************************************************************)
(* JavaScript values.  A primitive carries its type tag and its payload;   *)
(* an analysis object carries the five fields the code reads.              *)
(***************************************************************************)
Undefined == [t |-> "undefined", n |-> 0, s |-> <<>>, b |-> FALSE]
Null == [t |-> "null", n |-> 0, s |-> <<>>, b |-> FALSE]
Num(k) == [t |-> "number", n |-> k, s |-> <<>>, b |-> FALSE]
Bool(v) == [t |-> "boolean", n |-> 0, s |-> <<>>, b |-> v]
Str(v) == [t |-> "string", n |-> 0, s |-> v, b |-> FALSE]

Verdict(score, sufficient, web, why, suggested) ==
  [t |-> "object",
   relevance_score |-> score,
   is_sufficient |-> sufficient,
   requires_web_search |-> web,
   reasoning |-> why,
   suggested_search_query |-> suggested]

\* what a JavaScript condition (if, ||, ?:) makes of a value
Truthy(v) ==
  CASE v.t = "undefined" -> FALSE
    [] v.t = "null" -> FALSE
    [] v.t = "boolean" -> v.b
    [] v.t = "number" -> v.n # 0
    [] v.t = "string" -> v.s # <<>>
    [] OTHER -> TRUE

\* v.suggested_search_query: a missing property, or a property of a number,
\* a boolean or a string, reads as undefined
SuggestedOf(v) ==
  IF v.t = "object" THEN v.suggested_search_query ELSE Undefined

(***************************************************************************)
(* QueryAnalyzer.quickAnalysis                                             *)
(***************************************************************************)
webIndicators ==
  << <<"l", "a", "t", "e", "s", "t">>,
     <<"r", "e", "c", "e", "n", "t">>,
     <<"c", "u", "r", "r", "e", "n", "t">>,
     <<"t", "o", "d", "a", "y">>,
     <<"n", "o", "w">>,
     <<"n", "e", "w">>,
     <<"n", "e", "w", "s">>,
     <<"u", "p", "d", "a", "t", "e">>,
     <<"t", "r", "e", "n", "d">>,
     <<"p", "r", "i", "c", "e">>,
     <<"s", "t", "o", "c", "k">>,
     <<"w", "e", "a", "t", "h", "e", "r">>,
     <<"2", "0", "2", "4">>,
     <<"2", "0", "2", "5">>,
     <<"t", "h", "i", "s", " ", "y", "e", "a", "r">>,
     <<"t", "h", "i", "s", " ", "m", "o", "n", "t", "h">> >>

MinLocalLength == 100

\* the indicators looked for in the query as typed
needsWebInfoCaseSensitive(query) ==
  \E k \in 1..Len(webIndicators) : includes(query, webIndicators[k])

\* webIndicators.some((indicator) => queryLower.includes(indicator))
needsWebInfo(query) ==
  LET queryLower == toLowerCase(query)
  IN  \E k \in 1..Len(webIndicators) : includes(queryLower, webIndicators[k])

\* chunk.text?.length || 0
chunkTextLength(chunk) ==
  IF chunk.text.t = "string" THEN StrLen(chunk.text.s) ELSE 0

RECURSIVE totalLength(_)
totalLength(chunks) ==
  IF chunks = <<>> THEN 0
  ELSE chunkTextLength(Head(chunks)) + totalLength(Tail(chunks))

\* the comparison written <= instead of <
requiresWebAtMost(query, chunks) ==
  needsWebInfo(query) \/ totalLength(chunks) <= MinLocalLength

requiresWeb(query, chunks) ==
  needsWebInfo(query) \/ totalLength(chunks) < MinLocalLength

ReasonWeb ==
  <<"Query appears to need current information or retrieved content is insufficient">>

ReasonLocal == <<"Retrieved documents should be sufficient">>

\* the original query suggested whatever the decision
quickAnalysisAlwaysSuggesting(query, chunks) ==
  LET web == requiresWeb(query, chunks)
  IN  Verdict(IF web THEN Num(4) ELSE Num(7),
              Bool(~web),
              Bool(web),
              IF web THEN Str(ReasonWeb) ELSE Str(ReasonLocal),
              Str(query))

quickAnalysis(query, chunks) ==
  LET web == requiresWeb(query, chunks)
  IN  Verdict(IF web THEN Num(4) ELSE Num(7),
              Bool(~web),
              Bool(web),
              IF web THEN Str(ReasonWeb) ELSE Str(ReasonLocal),
              IF web THEN Str(query) ELSE Null)

(***************************************************************************)
(* QueryAnalyzer.evaluateRetrievalQuality                                  *)
(***************************************************************************)
\* the piece that stands for a run of three backquotes
Fence == "<fence>"

JsonTag == "json"

\* positions of the fences of a completion
FencePositions(content) == {i \in 1..Len(content) : content[i] = Fence}

\* a match that wants the json tag after the opening fence
matchFenceTagged(content) ==
  LET fences == FencePositions(content)
      tagged == {i \in fences : i < Len(content) /\ content[i + 1] = JsonTag}
  IN  IF tagged = {} \/ \A i \in tagged : \A j \in fences : j <= i
      THEN [matched |-> FALSE, group |-> <<>>]
      ELSE LET open == CHOOSE i \in tagged :
                         /\ \E j \in fences : j > i
                         /\ \A k \in tagged : (\E j \in fences : j > k) => i <= k
               close == CHOOSE i \in fences :
                          /\ i > open
                          /\ \A j \in fences : j > open => i <= j
               inner == SubSeq(content, open + 2, close - 1)
           IN  [matched |-> TRUE, group |-> trimEnd(trimStart(inner))]

\* content.match(/<fence>(?:json)?\s*([\s\S]*?)\s*<fence>/): the leftmost fence that
\* has a later fence opens the match, the optional tag and the white space
\* after it are skipped, and the lazy group ends before the white space
\* that precedes the next fence.  No second fence: no match (matched FALSE).
matchFence(content) ==
  LET fences == FencePositions(content)
  IN  IF Cardinality(fences) < 2
      THEN [matched |-> FALSE, group |-> <<>>]
      ELSE LET open == CHOOSE i \in fences : \A j \in fences : i <= j
               afterTag == IF content[open + 1] = JsonTag
                           THEN open + 2 ELSE open + 1
               close == CHOOSE i \in fences :
                          /\ i >= afterTag
                          /\ \A j \in fences : j >= afterTag => i <= j
               inner == SubSeq(content, afterTag, close - 1)
           IN  [matched |-> TRUE, group |-> trimEnd(trimStart(inner))]

\* lexemes of the JSON texts the model can be given
JSONNumbers == ("0" :> 0) @@ ("3" :> 3) @@ ("5" :> 5) @@ ("8" :> 8) @@ ("11" :> 11)

JSONStrings ==
  ("\"\"" :> <<>>) @@
  ("\"AI trends 2025 overview\"" :> <<"AI trends 2025 overview">>) @@
  ("\"null\"" :> <<"null">>) @@
  ("\"Documents cover the topic\"" :> <<"Documents cover the topic">>) @@
  ("\"Documents are outdated\"" :> <<"Documents are outdated">>)

JSONKeys ==
  ("\"relevance_score\"" :> "relevance_score") @@
  ("\"is_sufficient\"" :> "is_sufficient") @@
  ("\"requires_web_search\"" :> "requires_web_search") @@
  ("\"reasoning\"" :> "reasoning") @@
  ("\"suggested_search_query\"" :> "suggested_search_query") @@
  ("\"confidence\"" :> "confidence")

IsLiteral(tok) ==
  \/ tok \in DOMAIN JSONNumbers
  \/ tok \in DOMAIN JSONStrings
  \/ tok \in {"true", "false", "null"}

LiteralValue(tok) ==
  CASE tok \in DOMAIN JSONNumbers -> Num(JSONNumbers[tok])
    [] tok \in DOMAIN JSONStrings -> Str(JSONStrings[tok])
    [] tok = "true" -> Bool(TRUE)
    [] tok = "false" -> Bool(FALSE)
    [] OTHER -> Null

\* the members between the braces: key : literal , key : literal ...
WellFormedMembers(m) ==
  \/ m = <<>>
  \/ /\ Len(m) % 4 = 3
     /\ \A k \in 0..((Len(m) - 3) \div 4) :
          /\ m[4 * k + 1] \in DOMAIN JSONKeys
          /\ m[4 * k + 2] = ":"
          /\ IsLiteral(m[4 * k + 3])
          /\ (4 * k + 4 <= Len(m) => m[4 * k + 4] = ",")

\* the value of property name: the last member with that key wins
MemberValue(m, name) ==
  LET at == {k \in 0..((Len(m) - 3) \div 4) : JSONKeys[m[4 * k + 1]] = name}
  IN  IF m = <<>> \/ at = {} THEN Undefined
      ELSE LET last == CHOOSE k \in at : \A j \in at : j <= k
           IN  LiteralValue(m[4 * last + 3])

\* JSON.parse(text): ok = FALSE is the SyntaxError
JSONparse(text) ==
  LET toks == SelectSeq(text, LAMBDA p : p \notin Whitespace)
  IN  IF Len(toks) = 1 /\ IsLiteral(toks[1])
      THEN [ok |-> TRUE, value |-> LiteralValue(toks[1])]
      ELSE IF Len(toks) >= 2 /\ toks[1] = "{" /\ toks[Len(toks)] = "}"
              /\ WellFormedMembers(SubSeq(toks, 2, Len(toks) - 1))
      THEN LET m == SubSeq(toks, 2, Len(toks) - 1)
           IN  [ok |-> TRUE,
                value |-> Verdict(MemberValue(m, "relevance_score"),
                                  MemberValue(m, "is_sufficient"),
                                  MemberValue(m, "requires_web_search"),
                                  MemberValue(m, "reasoning"),
                                  MemberValue(m, "suggested_search_query"))]
      ELSE [ok |-> FALSE, value |-> Undefined]

\* a catch block that escalates to the web instead
safeDefaultEscalating ==
  Verdict(Num(0), Bool(FALSE), Bool(TRUE),
          Str(<<"Analysis failed, using retrieved documents only">>), Null)

\* the object the catch block returns
safeDefault ==
  Verdict(Num(5), Bool(TRUE), Bool(FALSE),
          Str(<<"Analysis failed, using retrieved documents only">>), Null)

\* chunk.text.substring(0, 200) while the prompt is built: a chunk whose
\* text is not a string throws inside the try block, before the model call
promptThrows(chunks) == \E i \in 1..Len(chunks) : chunks[i].text.t # "string"

\* The try block from the model's answer on.  reply.kind = "throw": the call
\* rejected; "ok": reply.content is response.choices[0].message.content.
analysisOfReply(reply) ==
  IF reply.kind # "ok" THEN safeDefault
  ELSE IF reply.content.t # "string" THEN safeDefault
  ELSE LET jsonMatch == matchFence(reply.content.s)
           content == IF jsonMatch.matched THEN jsonMatch.group
                      ELSE reply.content.s
           parsed == JSONparse(trim(content))
       IN  IF ~parsed.ok THEN safeDefault
           ELSE IF parsed.value.t = "null" THEN safeDefault
           ELSE parsed.value

\* QueryAnalyzer.analyze for the strategy that needs no model call
\* (useQuickAnalysis, or a prompt that cannot be built)
analyzeLocally(query, chunks, useQuick) ==
  IF useQuick THEN quickAnalysis(query, chunks) ELSE safeDefault

\* the strategy flag ignored
analyzeCallsModelAlways(chunks, useQuick) == ~promptThrows(chunks)

\* whether QueryAnalyzer.analyze awaits the language model
analyzeCallsModel(chunks, useQuick) == ~useQuick /\ ~promptThrows(chunks)

(***************************************************************************)
(* WebSearcher.  A reply of the search engine is                           *)
(*   [kind |-> "throw"]  the call rejected, or                             *)
(*   [kind |-> "ok", results, knowledge_panel, featured_snippet]           *)
(* where results is a sequence of [title, url, description] (JavaScript    *)
(* values), hasResults = FALSE stands for a response without a results     *)
(* array, and the two panels are objects or Undefined.                     *)
(***************************************************************************)
\* value || ''
orEmpty(v) == IF Truthy(v) THEN v.s ELSE <<>>

\* response.results.slice(0, numResults).map(...), [] from the catch block
performSearch(reply, numResults) ==
  IF reply.kind # "ok" THEN <<>>
  ELSE IF reply.hasResults = FALSE THEN <<>>
  ELSE LET n == IF Len(reply.results) < numResults
                THEN Len(reply.results) ELSE numResults
       IN  [i \in 1..n |->
              [title |-> orEmpty(reply.results[i].title),
               link |-> orEmpty(reply.results[i].url),
               description |-> orEmpty(reply.results[i].description),
               snippet |-> orEmpty(reply.results[i].description),
               source |-> "google"]]

\* one "Label: value\n" line, added when the value is truthy
labelled(label, v) == IF Truthy(v) THEN <<label>> \o v.s \o <<"\n">> ELSE <<>>

\* JSON.stringify(kg.info, null, 2) of a string: the string in quotes
stringifyInfo(v) == Str(<<"\"">> \o v.s \o <<"\"">>)

getKnowledgeGraph(reply) ==
  IF reply.kind # "ok" THEN Null
  ELSE IF reply.knowledge_panel.t # "object" THEN Null
  ELSE LET kg == reply.knowledge_panel
       IN  Str(labelled("Title: ", kg.title)
               \o labelled("Type: ", kg.type)
               \o labelled("Description: ", kg.description)
               \o (IF Truthy(kg.info)
                   THEN labelled("Info: ", stringifyInfo(kg.info))
                   ELSE <<>>))

getFeaturedSnippet(reply) ==
  IF reply.kind # "ok" THEN Null
  ELSE IF reply.featured_snippet.t # "object" THEN Null
  ELSE LET snippet == reply.featured_snippet
       IN  Str(labelled("Title: ", snippet.title)
               \o labelled("Content: ", snippet.description)
               \o labelled("Source: ", snippet.url))

\* one entry of contextParts
webSourceText(result, idx) ==
  <<"[Web Source ", ToString(idx), ": ">> \o result.title \o <<"]\n">>
  \o <<"URL: ">> \o result.link \o <<"\n">>
  \o <<"Content: ">> \o result.description

\* the knowledge graph block written before the featured snippet
getSearchContextPanelFirst(results, knowledgeGraph, featuredSnippet) ==
  (IF Truthy(knowledgeGraph)
   THEN <<"=== KNOWLEDGE GRAPH ===\n">> \o knowledgeGraph.s \o <<"\n\n">>
   ELSE <<>>)
  \o (IF Truthy(featuredSnippet)
      THEN <<"=== FEATURED SNIPPET ===\n">> \o featuredSnippet.s \o <<"\n\n">>
      ELSE <<>>)
  \o (IF Len(results) > 0
      THEN <<"=== SEARCH RESULTS ===\n\n">>
           \o join([i \in 1..Len(results) |-> webSourceText(results[i], i)],
                   <<"\n\n---\n\n">>)
      ELSE <<>>)

\* a results header written even when there is no result
getSearchContextAnnouncingNone(results, knowledgeGraph, featuredSnippet) ==
  (IF Truthy(featuredSnippet)
   THEN <<"=== FEATURED SNIPPET ===\n">> \o featuredSnippet.s \o <<"\n\n">>
   ELSE <<>>)
  \o (IF Truthy(knowledgeGraph)
      THEN <<"=== KNOWLEDGE GRAPH ===\n">> \o knowledgeGraph.s \o <<"\n\n">>
      ELSE <<>>)
  \o <<"=== SEARCH RESULTS ===\n\n">>
  \o join([i \in 1..Len(results) |-> webSourceText(results[i], i)],
          <<"\n\n---\n\n">>)

\* the string getSearchContext builds from what comprehensiveSearch returned
getSearchContext(results, knowledgeGraph, featuredSnippet) ==
  (IF Truthy(featuredSnippet)
   THEN <<"=== FEATURED SNIPPET ===\n">> \o featuredSnippet.s \o <<"\n\n">>
   ELSE <<>>)
  \o (IF Truthy(knowledgeGraph)
      THEN <<"=== KNOWLEDGE GRAPH ===\n">> \o knowledgeGraph.s \o <<"\n\n">>
      ELSE <<>>)
  \o (IF Len(results) > 0
      THEN <<"=== SEARCH RESULTS ===\n\n">>
           \o join([i \in 1..Len(results) |-> webSourceText(results[i], i)],
                   <<"\n\n---\n\n">>)
      ELSE <<>>)

(***************************************************************************)
(* Retriever                                                               *)
(***************************************************************************)
RECURSIVE insertByDistance(_, _)
insertByDistance(row, sorted) ==
  IF sorted = <<>> THEN <<row>>
  ELSE IF row.distance < Head(sorted).distance THEN <<row>> \o sorted
  ELSE <<Head(sorted)>> \o insertByDistance(row, Tail(sorted))

RECURSIVE sortByDistance(_)
sortByDistance(rows) ==
  IF rows = <<>> THEN <<>>
  ELSE insertByDistance(rows[Len(rows)],
                        sortByDistance(SubSeq(rows, 1, Len(rows) - 1)))

\* the search without .limit(topK): every row, closest first
vectorSearchUnlimited(rows, topK) == sortByDistance(rows)

\* table.search(queryEmbedding).limit(topK).toArray(): the topK rows
\* nearest to the query, closest first
vectorSearch(rows, topK) ==
  LET sorted == sortByDistance(rows)
  IN  SubSeq(sorted, 1, IF Len(sorted) < topK THEN Len(sorted) ELSE topK)

\* result.text.substring(0, 200) in the display loop throws on a row
\* whose text is not a string
displayThrows(results) ==
  \E i \in 1..Len(results) : results[i].text.t # "string"

\* Array.prototype.join writes undefined and null as the empty string
textOf(result) == IF result.text.t = "string" THEN result.text.s ELSE <<>>

\* chunks without text left out of the local section
localContextOfNonEmpty(localResults) ==
  LET kept == SelectSeq(localResults, LAMBDA r : textOf(r) # <<>>)
  IN  join([i \in 1..Len(kept) |-> textOf(kept[i])], <<"\n\n">>)

\* localResults.map((result) => result.text).join("\n\n")
localContextOf(localResults) ==
  join([i \in 1..Len(localResults) |-> textOf(localResults[i])], <<"\n\n">>)

\* the suggested query used only when the verdict asks for a web search
searchQueryIfRequired(analysis, query) ==
  IF /\ analysis.t = "object"
     /\ Truthy(analysis.requires_web_search)
     /\ Truthy(SuggestedOf(analysis))
  THEN SuggestedOf(analysis)
  ELSE Str(query)

\* analysis.suggested_search_query || query
searchQueryOf(analysis, query) ==
  IF Truthy(SuggestedOf(analysis)) THEN SuggestedOf(analysis) ELSE Str(query)

LocalHeader == "=== LOCAL DOCUMENT CONTEXT ==="

WebHeader == "=== WEB SEARCH CONTEXT (Additional Information) ==="

\* the web section left out when the search brought nothing
combinedContextWithoutEmptyWeb(localContext, webContext) ==
  IF webContext = <<>>
  THEN <<LocalHeader, "\n\n">> \o localContext
  ELSE <<LocalHeader, "\n\n">> \o localContext
       \o <<"\n\n", WebHeader, "\n\n">> \o webContext

\* the template literal of step 4
combinedContext(localContext, webContext) ==
  <<LocalHeader, "\n\n">> \o localContext
  \o <<"\n\n", WebHeader, "\n\n">> \o webContext

\* the local context under its section header, as in the fused context
localOnlyWithHeader(localResults) ==
  [kind |-> "local",
   context |-> Str(<<LocalHeader, "\n\n">> \o localContextOf(localResults)),
   localContext |-> Undefined,
   webContext |-> Undefined,
   chunks |-> localResults,
   webResults |-> Null,
   analysis |-> Null]

\* what retrieveContext returns with corrective RAG disabled
localOnly(localResults) ==
  [kind |-> "local",
   context |-> Str(localContextOf(localResults)),
   localContext |-> Undefined,
   webContext |-> Undefined,
   chunks |-> localResults,
   webResults |-> Null,
   analysis |-> Null]

\* what retrieveContext returns with corrective RAG enabled
fused(localResults, analysis, searchQuery, webContext) ==
  [kind |-> "fused",
   context |-> Str(combinedContext(localContextOf(localResults), webContext)),
   localContext |-> Str(localContextOf(localResults)),
   webContext |-> Str(webContext),
   chunks |-> localResults,
   webResults |-> [t |-> "object", searchQuery |-> searchQuery,
                   context |-> Str(webContext)],
   analysis |-> analysis]

(***************************************************************************)
(* Inputs: what the user types, what the index holds, what the language    *)
(* model and the search engine answer.                                     *)
(***************************************************************************)
MaxQueries == 2

EngineMaxResults == 4

TopK == 30

NumResults == 3

QHello == <<"h", "e", "l", "l", "o">>

QNews == <<"N", "E", "W", "S">>

QKnow == <<"k", "n", "o", "w">>

QSummarize ==
  <<"S", "u", "m", "m", "a", "r", "i", "z", "e", " ",
    "s", "e", "c", "t", "i", "o", "n", " ", "2">>

QTrends ==
  <<"W", "h", "a", "t", " ", "a", "r", "e", " ", "t", "h", "e", " ",
    "l", "a", "t", "e", "s", "t", " ", "A", "I", " ",
    "t", "r", "e", "n", "d", "s", " ", "i", "n", " ", "2", "0", "2", "5", "?">>

QExit == <<" ", "E", "x", "i", "t", " ">>

QQuit == <<"Q", "U", "I", "T">>

QBlank == <<" ", " ">>

QPadded == <<" ", "h", "e", "l", "l", "o", "\n">>

\* the lines the user can type at the prompt
Inputs ==
  {QHello, QNews, QKnow, QSummarize, QTrends, QExit, QQuit, <<>>, QBlank,
   QPadded}

T40 == <<"The indexed report describes the annual ">>

T59 == <<"The indexed report describes the annual maintenance plan of">>

T60 == <<"The indexed report describes the annual maintenance plan of ">>

T100 ==
  <<"The indexed report describes the annual maintenance plan of the water treatment facility in detail. ">>

Row(text, distance, contentType, pageNumber) ==
  [text |-> text, distance |-> distance, contentType |-> contentType,
   pageNumber |-> pageNumber]

\* the states of the documents table, rows in insertion order
Tables ==
  { <<>>,
    << Row(Str(T59), 5, "text", 1), Row(Str(T40), 2, "text", 1) >>,
    << Row(Str(T60), 3, "text", 2), Row(Str(T40), 1, "image", 1) >>,
    << Row(Str(T100), 4, "text", 3), Row(Str(<<>>), 9, "image", 2),
       Row(Str(T60), 4, "text", 1), Row(Str(T40), 1, "text", 1) >>,
    << Row(Str(T100), 2, "text", 1), Row(Null, 1, "text", 1) >> }

JsonSufficient ==
  <<"{", "\"relevance_score\"", ":", "8", ",",
         "\"is_sufficient\"", ":", "true", ",",
         "\"requires_web_search\"", ":", "false", ",",
         "\"reasoning\"", ":", "\"Documents cover the topic\"", ",",
         "\"suggested_search_query\"", ":", "null", "}">>

JsonNeedsWeb ==
  <<"{", "\"relevance_score\"", ":", "3", ",", "\n",
         "\"is_sufficient\"", ":", "false", ",", "\n",
         "\"requires_web_search\"", ":", "true", ",", "\n",
         "\"reasoning\"", ":", "\"Documents are outdated\"", ",", "\n",
         "\"suggested_search_query\"", ":", "\"AI trends 2025 overview\"",
    "}">>

\* sufficient, and a refined query all the same
JsonSufficientWithQuery ==
  <<"{", "\"relevance_score\"", ":", "8", ",",
         "\"is_sufficient\"", ":", "true", ",",
         "\"requires_web_search\"", ":", "false", ",",
         "\"suggested_search_query\"", ":", "\"AI trends 2025 overview\"",
    "}">>

\* web search wanted, and an empty refined query
JsonEmptyQuery ==
  <<"{", "\"relevance_score\"", ":", "3", ",",
         "\"is_sufficient\"", ":", "false", ",",
         "\"requires_web_search\"", ":", "true", ",",
         "\"suggested_search_query\"", ":", "\"\"", "}">>

JsonOutOfRange ==
  <<"{", "\"relevance_score\"", ":", "11", ",",
         "\"confidence\"", ":", "\"null\"", "}">>

Completions ==
  { JsonSufficient,
    JsonNeedsWeb,
    JsonSufficientWithQuery,
    JsonEmptyQuery,
    JsonOutOfRange,
    <<"{", "}">>,
    <<"5">>,
    <<"null">>,
    <<"I", " ", "cannot", " ", "help">>,
    <<"{", "\"relevance_score\"", ":", "8", ",", "}">>,
    <<Fence, JsonTag, "\n">> \o JsonNeedsWeb \o <<"\n", Fence>>,
    <<"Here", " ", "you", " ", "go", ":", "\n", Fence, "\n">>
      \o JsonSufficient \o <<"\n", Fence, "\n", "Done">>,
    <<Fence, JsonTag, "\n">> \o JsonNeedsWeb }

\* the verdicts a completion can carry as JSON text
JsonVerdicts ==
  {JsonSufficient, JsonNeedsWeb, JsonSufficientWithQuery, JsonEmptyQuery,
   JsonOutOfRange}

\* a completion that puts text in a fenced code block
Fenced(before, tag, text, after) ==
  before \o <<Fence>> \o tag \o text \o <<Fence>> \o after

\* the ways a completion fences a JSON text: bare fence or json tag, the
\* block alone or with prose around it, with and without line breaks
FencedCompletions(text) ==
  { Fenced(<<>>, <<"\n">>, text \o <<"\n">>, <<>>),
    Fenced(<<>>, <<JsonTag, "\n">>, text \o <<"\n">>, <<>>),
    Fenced(<<>>, <<JsonTag>>, text, <<>>),
    Fenced(<<"Here", " ", "you", " ", "go", ":", "\n">>, <<"\n">>,
           text \o <<"\n">>, <<"\n", "Done">>),
    Fenced(<<"Sure", ":", "\n", "\n">>, <<JsonTag, " ", "\n">>,
           text \o <<"\n", " ">>, <<"\n", "Let", " ", "me", " ", "know">>) }

\* what chat.completions.create can settle with
ModelReplies ==
  {[kind |-> "throw", content |-> Undefined],
   [kind |-> "ok", content |-> Null]}
  \cup {[kind |-> "ok", content |-> Str(c)] : c \in Completions}

WebItem(i) ==
  [title |-> Str(<<"Result ", ToString(i)>>),
   url |-> Str(<<"https://example.org/", ToString(i)>>),
   description |-> Str(<<"Description of result ", ToString(i)>>)]

\* the first n entries of a full results array
RECURSIVE WebItems(_)
WebItems(n) == IF n = 0 THEN <<>> ELSE Append(WebItems(n - 1), WebItem(n))

Panel(title, type, description, info) ==
  [t |-> "object", title |-> title, type |-> type,
   description |-> description, info |-> info]

Snippet(title, description, url) ==
  [t |-> "object", title |-> title, description |-> description, url |-> url]

WebReply(results, panel, snippet) ==
  [kind |-> "ok", hasResults |-> TRUE, results |-> results,
   knowledge_panel |-> panel, featured_snippet |-> snippet]

\* what search(query, options) can settle with
WebReplies ==
  { [kind |-> "throw"],
    [kind |-> "ok", hasResults |-> FALSE, results |-> <<>>,
     knowledge_panel |-> Undefined, featured_snippet |-> Undefined],
    WebReply(<<>>, Undefined, Undefined),
    WebReply(WebItems(EngineMaxResults),
             Panel(Str(<<"Ada Lovelace">>), Str(<<"Mathematician">>),
                   Str(<<"English mathematician and writer">>),
                   Str(<<"1815">>)),
             Snippet(Str(<<"Ada Lovelace">>),
                     Str(<<"Wrote the first published program">>),
                     Str(<<"https://example.org/ada">>))),
    WebReply(<<>>,
             Panel(Str(<<"Ada Lovelace">>), Undefined, Undefined, Undefined),
             Undefined),
    WebReply(<<[title |-> Undefined, url |-> Str(<<"https://example.org/x">>),
                description |-> Undefined]>>,
             Panel(Undefined, Undefined, Undefined, Undefined),
             Undefined) }

\* a JavaScript value as it was received
received(v) == [t |-> v.t, n |-> v.n, s |-> v.s, b |-> v.b]

\* response.results as the engine sent it, nothing when there is no array
rawResults(reply) ==
  IF reply.kind = "ok" /\ reply.hasResults
  THEN [i \in 1..Len(reply.results) |->
          [title |-> received(reply.results[i].title),
           url |-> received(reply.results[i].url),
           description |-> received(reply.results[i].description)]]
  ELSE <<>>

\* search() rejected
webCallThrew(reply) == reply.kind = "throw"

(***************************************************************************)
(* State                                                                   *)
(***************************************************************************)
VARIABLES
  pc,                  \* where the session is: the call it awaits
  hung,                \* the awaited collaborator will never answer
  rl,                  \* Augmenter.rl: "open" or "closed"
  enableCorrectiveRAG, \* Retriever.enableCorrectiveRAG
  useQuickAnalysis,    \* Retriever.useQuickAnalysis
  table,               \* rows of the documents table
  asked,               \* lines read from the console so far
  query,               \* the trimmed line being handled
  localResults,        \* retrieveContext: localResults
  analysis,            \* retrieveContext: analysis
  searchQuery,         \* retrieveContext: searchQuery
  results,             \* comprehensiveSearch: results
  knowledgeGraph,      \* comprehensiveSearch: knowledgeGraph
  featuredSnippet,     \* comprehensiveSearch: featuredSnippet
  returned,            \* what retrieveContext returned to the session
  augmentedPrompt,     \* the prompt handed to generateAnswer
  trace,               \* external calls started for the current line
  webThrows,           \* how many search() calls rejected for this line
  modelReply,          \* what the language model answered for this line
  failed,              \* the retrieval call that threw for this line
  verdicts,            \* what direct calls of analyze returned, in order
  outcome,             \* how the handling of the current line ended
  topK,                \* retrieveContext: topK
  pending,             \* the calls started and not yet settled, in order
  engineResults,       \* the results arrays search() answered, call by call
  retrievals,          \* the chunks repeated retrievals returned, in order
  runs,                \* what each finished retrieveContext asked for and returned
  chunker,             \* Indexer.chunkText: its arguments and locals
  imageProcessor,      \* ImageProcessor, processImages and the process listeners
  indexer,             \* Indexer.indexPDF: its locals and the documents table
  app                  \* RAGApplication and main: arguments, files, exit

config == <<enableCorrectiveRAG, useQuickAnalysis>>

locals == <<localResults, analysis, searchQuery, returned, augmentedPrompt>>

web == <<results, knowledgeGraph, featuredSnippet, webThrows,
         engineResults>>

ghosts == <<modelReply, failed, verdicts>>

\* the question answering session
session ==
  <<pc, hung, rl, config, table, asked, query, locals, web, ghosts, trace,
    outcome, topK, pending, retrievals, runs>>

\* the indexing pipeline and the entry point
elsewhere == <<chunker, imageProcessor, indexer, app>>

vars == <<session, elsewhere>>

\* a part of the program that is not running
NotRunning == [pc |-> "idle"]

Idle ==
  /\ chunker = NotRunning
  /\ imageProcessor = NotRunning
  /\ indexer = NotRunning
  /\ app = NotRunning

NoReply == [kind |-> "none", content |-> Undefined]

NoReturn ==
  [kind |-> "none", context |-> Undefined, localContext |-> Undefined,
   webContext |-> Undefined, chunks |-> <<>>, webResults |-> Null,
   analysis |-> Null]

\* the positions at which an external call is awaited
Awaiting ==
  {"connect", "openTable", "embed", "search", "llm",
   "performSearch", "getKnowledgeGraph", "getFeaturedSnippet", "generate"}

\* the three searches of comprehensiveSearch started together
startedTogether(position) ==
  IF position = "performSearch"
  THEN <<"performSearch", "getKnowledgeGraph", "getFeaturedSnippet">>
  ELSE IF position \in Awaiting THEN <<position>> ELSE <<>>

\* the calls started on reaching a position: every call is awaited before
\* the next statement runs
started(position) == IF position \in Awaiting THEN <<position>> ELSE <<>>

\* the awaited call has settled and the calls of the next position start
TrackPending ==
  pending' = SelectSeq(pending, LAMBDA call : call # pc) \o started(pc')

Count(seq, e) == Cardinality({i \in 1..Len(seq) : seq[i] = e})

\* Augmenter.augmentQueryWithContext
augmentQueryWithContext(q, context) ==
  <<"You are a helpful assistant. Answer the user's question based on the following context. If the answer cannot be found in the context, say 'I dont Know - Call ThanhNC40'.",
    "\n\n", "Context:", "\n">> \o context
  \o <<"\n\n", "User Question: ">> \o q \o <<"\n\n", "Answer:">>

ClearLocals ==
  /\ localResults' = <<>>
  /\ analysis' = Undefined
  /\ searchQuery' = Undefined
  /\ returned' = NoReturn
  /\ augmentedPrompt' = <<>>
  /\ results' = <<>>
  /\ knowledgeGraph' = Undefined
  /\ featuredSnippet' = Undefined
  /\ engineResults' = <<>>

Init ==
  /\ pc = "prompt"
  /\ hung = FALSE
  /\ rl = "open"
  /\ enableCorrectiveRAG = TRUE
  /\ useQuickAnalysis = FALSE
  /\ table \in Tables
  /\ asked = 0
  /\ query = <<>>
  /\ localResults = <<>>
  /\ analysis = Undefined
  /\ searchQuery = Undefined
  /\ results = <<>>
  /\ knowledgeGraph = Undefined
  /\ featuredSnippet = Undefined
  /\ returned = NoReturn
  /\ augmentedPrompt = <<>>
  /\ trace = <<>>
  /\ webThrows = 0
  /\ modelReply = NoReply
  /\ failed = "none"
  /\ verdicts = <<>>
  /\ outcome = "none"
  /\ topK = TopK
  /\ pending = <<>>
  /\ engineResults = <<>>
  /\ retrievals = <<>>
  /\ runs = <<>>
  /\ Idle

(***************************************************************************)
(* Retriever.setCRAGConfig, called between two questions                   *)
(***************************************************************************)
setCRAGConfig(enable, quick) ==
  /\ pc = "prompt"
  /\ enableCorrectiveRAG' =
       IF enable.t # "undefined" THEN enable.b ELSE enableCorrectiveRAG
  /\ useQuickAnalysis' =
       IF quick.t # "undefined" THEN quick.b ELSE useQuickAnalysis
  /\ UNCHANGED <<pc, hung, rl, table, topK, asked, query, locals, web, ghosts,
                 trace, outcome, pending, retrievals, runs, elsewhere>>

(***************************************************************************)
(* Augmenter.startQASession: one turn of the loop up to its first await    *)
(***************************************************************************)
ExitWords == {<<"e", "x", "i", "t">>, <<"q", "u", "i", "t">>}

\* exit and quit compared without lowering the case
UserInputCaseSensitive(line) ==
  /\ pc = "prompt"
  /\ asked < MaxQueries
  /\ asked' = asked + 1
  /\ query' = trim(line)
  /\ webThrows' = 0
  /\ modelReply' = NoReply
  /\ failed' = "none"
  /\ ClearLocals
  /\ IF trim(line) \in ExitWords
     THEN /\ pc' = "closed"
          /\ rl' = "closed"
          /\ trace' = <<>>
          /\ outcome' = "exit"
     ELSE IF trim(line) = <<>>
     THEN /\ pc' = "prompt"
          /\ rl' = rl
          /\ trace' = <<>>
          /\ outcome' = "invalid"
     ELSE /\ pc' = "connect"
          /\ rl' = rl
          /\ trace' = <<"connect">>
          /\ outcome' = "running"
  /\ UNCHANGED <<hung, config, table, topK, verdicts, retrievals, runs, elsewhere>>
  /\ TrackPending

\* the line tested for emptiness before it is trimmed
UserInputUntrimmedTest(line) ==
  /\ pc = "prompt"
  /\ asked < MaxQueries
  /\ asked' = asked + 1
  /\ query' = trim(line)
  /\ webThrows' = 0
  /\ modelReply' = NoReply
  /\ failed' = "none"
  /\ ClearLocals
  /\ IF toLowerCase(trim(line)) \in ExitWords
     THEN /\ pc' = "closed"
          /\ rl' = "closed"
          /\ trace' = <<>>
          /\ outcome' = "exit"
     ELSE IF line = <<>>
     THEN /\ pc' = "prompt"
          /\ rl' = rl
          /\ trace' = <<>>
          /\ outcome' = "invalid"
     ELSE /\ pc' = "connect"
          /\ rl' = rl
          /\ trace' = <<"connect">>
          /\ outcome' = "running"
  /\ UNCHANGED <<hung, config, table, topK, verdicts, retrievals, runs, elsewhere>>
  /\ TrackPending

\* the next line read without awaiting the calls of the previous one
UserInputNotAwaiting(line) ==
  /\ pc \in {"prompt"} \cup Awaiting
  /\ asked < MaxQueries
  /\ asked' = asked + 1
  /\ query' = trim(line)
  /\ webThrows' = 0
  /\ modelReply' = NoReply
  /\ failed' = "none"
  /\ ClearLocals
  /\ IF toLowerCase(trim(line)) \in ExitWords
     THEN /\ pc' = "closed"
          /\ rl' = "closed"
          /\ trace' = <<>>
          /\ outcome' = "exit"
     ELSE IF trim(line) = <<>>
     THEN /\ pc' = "prompt"
          /\ rl' = rl
          /\ trace' = <<>>
          /\ outcome' = "invalid"
     ELSE /\ pc' = "connect"
          /\ rl' = rl
          /\ trace' = <<"connect">>
          /\ outcome' = "running"
  /\ UNCHANGED <<hung, config, table, topK, verdicts, retrievals, runs, elsewhere>>
  /\ TrackPending

UserInput(line) ==
  /\ pc = "prompt"
  /\ asked < MaxQueries
  /\ asked' = asked + 1
  /\ query' = trim(line)
  /\ webThrows' = 0
  /\ modelReply' = NoReply
  /\ failed' = "none"
  /\ ClearLocals
  /\ IF toLowerCase(trim(line)) \in ExitWords
     THEN /\ pc' = "closed"
          /\ rl' = "closed"
          /\ trace' = <<>>
          /\ outcome' = "exit"
     ELSE IF trim(line) = <<>>
     THEN /\ pc' = "prompt"
          /\ rl' = rl
          /\ trace' = <<>>
          /\ outcome' = "invalid"
     ELSE /\ pc' = "connect"
          /\ rl' = rl
          /\ trace' = <<"connect">>
          /\ outcome' = "running"
  /\ UNCHANGED <<hung, config, table, topK, verdicts, retrievals, runs, elsewhere>>
  /\ TrackPending

\* a catch block that leaves the loop and closes the interface
RetrievalFailsEndingSession(call) ==
  /\ pc' = "closed"
  /\ rl' = "closed"
  /\ outcome' = "retrieval_error"
  /\ failed' = call
  /\ UNCHANGED <<hung, config, table, topK, asked, query, locals, web,
                 modelReply, verdicts, trace>>

\* the catch block of the loop, reached from retrieveContext
RetrievalFails(call) ==
  /\ pc' = "prompt"
  /\ outcome' = "retrieval_error"
  /\ failed' = call
  /\ UNCHANGED <<hung, rl, config, table, topK, asked, query, locals, web,
                 modelReply, verdicts, trace>>

(***************************************************************************)
(* Retriever.searchSimilarDocuments                                        *)
(***************************************************************************)
Connect(r) ==
  /\ pc = "connect" /\ ~hung
  /\ IF r = "throw" THEN RetrievalFails("connect")
     ELSE /\ pc' = "openTable"
          /\ trace' = Append(trace, "openTable")
          /\ UNCHANGED <<hung, rl, config, table, topK, asked, query, locals, web,
                         ghosts, outcome>>
  /\ TrackPending
  /\ UNCHANGED <<retrievals, runs, elsewhere>>

OpenTable(r) ==
  /\ pc = "openTable" /\ ~hung
  /\ IF r = "throw" THEN RetrievalFails("openTable")
     ELSE /\ pc' = "embed"
          /\ trace' = Append(trace, "embed")
          /\ UNCHANGED <<hung, rl, config, table, topK, asked, query, locals, web,
                         ghosts, outcome>>
  /\ TrackPending
  /\ UNCHANGED <<retrievals, runs, elsewhere>>

\* a catch block that logs the error and does not rethrow
GenerateQueryEmbeddingSwallowing(r) ==
  /\ pc = "embed" /\ ~hung
  /\ pc' = "search"
  /\ trace' = Append(trace, "search")
  /\ failed' = IF r = "throw" THEN "embed" ELSE failed
  /\ UNCHANGED <<hung, rl, config, table, topK, asked, query, locals, web,
                 modelReply, verdicts, outcome>>
  /\ TrackPending
  /\ UNCHANGED <<retrievals, runs, elsewhere>>

\* generateQueryEmbedding: the catch block rethrows
GenerateQueryEmbedding(r) ==
  /\ pc = "embed" /\ ~hung
  /\ IF r = "throw" THEN RetrievalFails("embed")
     ELSE /\ pc' = "search"
          /\ trace' = Append(trace, "search")
          /\ UNCHANGED <<hung, rl, config, table, topK, asked, query, locals, web,
                         ghosts, outcome>>
  /\ TrackPending
  /\ UNCHANGED <<retrievals, runs, elsewhere>>

(***************************************************************************)
(* Retriever.retrieveContext, from the return of the vector search on      *)
(***************************************************************************)
\* the web search made only when the verdict asks for it
webSearchIfRequired(an) ==
  an.t = "object" /\ Truthy(an.requires_web_search)

\* Step 3: the web search is made whatever the analysis says
webSearchNeeded(an) == TRUE

\* retrieveContext returns; the session augments the query and calls
\* generateAnswer
ReturnContext(ret, an, sq) ==
  /\ analysis' = an
  /\ searchQuery' = sq
  /\ returned' = ret
  /\ augmentedPrompt' = augmentQueryWithContext(query, ret.context.s)
  /\ pc' = "generate"
  /\ trace' = Append(trace, "generate")

\* steps 3 and 4 once the analysis is known
AfterAnalysis(found, an) ==
  IF webSearchNeeded(an)
  THEN /\ analysis' = an
       /\ searchQuery' = searchQueryOf(an, query)
       /\ pc' = "performSearch"
       /\ trace' = Append(trace, "performSearch")
       /\ UNCHANGED <<returned, augmentedPrompt>>
  ELSE ReturnContext(fused(found, an, Undefined, <<>>), an, Undefined)

\* searchSimilarDocuments settles and retrieveContext goes on
SearchSettles(r) ==
  /\ pc = "search" /\ ~hung
  /\ LET found == vectorSearch(table, topK)
     IN  IF r = "throw" THEN RetrievalFails("search")
         ELSE IF displayThrows(found) THEN RetrievalFails("display")
         ELSE /\ localResults' = found
              /\ IF ~enableCorrectiveRAG
                 THEN ReturnContext(localOnly(found), Undefined, Undefined)
                 ELSE IF analyzeCallsModel(found, useQuickAnalysis)
                 THEN /\ pc' = "llm"
                      /\ trace' = Append(trace, "llm")
                      /\ UNCHANGED <<analysis, searchQuery, returned,
                                     augmentedPrompt>>
                 ELSE AfterAnalysis(found,
                        analyzeLocally(query, found, useQuickAnalysis))
              /\ UNCHANGED <<hung, rl, config, table, topK, asked, query, web,
                             ghosts, outcome>>
  /\ TrackPending

SearchReturn(r) == SearchSettles(r) /\ UNCHANGED <<retrievals, runs, elsewhere>>

\* the same step, the returned chunks kept for comparison
SearchReturnRecorded(r) ==
  /\ SearchSettles(r)
  /\ retrievals' =
       IF pc' = "prompt" THEN retrievals ELSE Append(retrievals, localResults')
  /\ UNCHANGED <<runs, elsewhere>>

\* a failed analysis switches the Retriever to the quick strategy
ModelReturnFallingBack(reply) ==
  /\ pc = "llm" /\ ~hung
  /\ AfterAnalysis(localResults, analysisOfReply(reply))
  /\ modelReply' = reply
  /\ useQuickAnalysis' =
       IF analysisOfReply(reply) = safeDefault THEN TRUE ELSE useQuickAnalysis
  /\ UNCHANGED <<hung, rl, enableCorrectiveRAG, table, topK, asked, query,
                 localResults, web, failed, verdicts, outcome>>
  /\ TrackPending
  /\ UNCHANGED <<retrievals, runs, elsewhere>>

\* evaluateRetrievalQuality resumes with the model's reply
ModelReturn(reply) ==
  /\ pc = "llm" /\ ~hung
  /\ AfterAnalysis(localResults, analysisOfReply(reply))
  /\ modelReply' = reply
  /\ UNCHANGED <<hung, rl, config, table, topK, asked, query, localResults, web,
                 failed, verdicts, outcome>>
  /\ TrackPending
  /\ UNCHANGED <<retrievals, runs, elsewhere>>

(***************************************************************************)
(* WebSearcher.comprehensiveSearch and getSearchContext                    *)
(***************************************************************************)
threw(reply) == IF webCallThrew(reply) THEN 1 ELSE 0

PerformSearch(reply) ==
  /\ pc = "performSearch" /\ ~hung
  /\ results' = performSearch(reply, NumResults)
  /\ webThrows' = webThrows + threw(reply)
  /\ pc' = "getKnowledgeGraph"
  /\ trace' = Append(trace, "getKnowledgeGraph")
  /\ engineResults' = <<rawResults(reply)>>
  /\ UNCHANGED <<hung, rl, config, table, topK, asked, query, locals,
                 knowledgeGraph, featuredSnippet, ghosts, outcome>>
  /\ TrackPending
  /\ UNCHANGED <<retrievals, runs, elsewhere>>

GetKnowledgeGraph(reply) ==
  /\ pc = "getKnowledgeGraph" /\ ~hung
  /\ knowledgeGraph' = getKnowledgeGraph(reply)
  /\ webThrows' = webThrows + threw(reply)
  /\ pc' = "getFeaturedSnippet"
  /\ trace' = Append(trace, "getFeaturedSnippet")
  /\ UNCHANGED <<hung, rl, config, table, topK, asked, query, locals,
                 results, featuredSnippet, ghosts, outcome>>
  /\ engineResults' = Append(engineResults, rawResults(reply))
  /\ TrackPending
  /\ UNCHANGED <<retrievals, runs, elsewhere>>

GetFeaturedSnippet(reply) ==
  /\ pc = "getFeaturedSnippet" /\ ~hung
  /\ featuredSnippet' = getFeaturedSnippet(reply)
  /\ webThrows' = webThrows + threw(reply)
  /\ ReturnContext(
       fused(localResults, analysis, searchQuery,
             getSearchContext(results, knowledgeGraph,
                              getFeaturedSnippet(reply))),
       analysis, searchQuery)
  /\ UNCHANGED <<hung, rl, config, table, topK, asked, query, localResults,
                 results, knowledgeGraph, ghosts, outcome>>
  /\ engineResults' = Append(engineResults, rawResults(reply))
  /\ TrackPending
  /\ UNCHANGED <<retrievals, runs, elsewhere>>

(***************************************************************************)
(* Generator.generateAnswer settles; the loop goes back to the prompt      *)
(***************************************************************************)
GenerateSettles(r) ==
  /\ pc = "generate" /\ ~hung
  /\ outcome' = IF r = "throw" THEN "generation_error" ELSE "answered"
  /\ pc' = "prompt"
  /\ ClearLocals
  /\ webThrows' = 0
  /\ modelReply' = NoReply
  /\ UNCHANGED <<hung, rl, config, table, topK, asked, query, failed, verdicts,
                 trace>>
  /\ TrackPending
  /\ UNCHANGED retrievals

GenerateAnswer(r) == GenerateSettles(r) /\ UNCHANGED <<runs, elsewhere>>

\* what one call of retrieveContext was given by its collaborators, what it
\* asked of them and what it returned
RunRecord ==
  [analysis |-> analysis,
   calls |-> trace,
   searchQuery |-> searchQuery,
   answers |-> <<engineResults, results, knowledgeGraph, featuredSnippet>>,
   kind |-> returned.kind,
   context |-> returned.context]

\* the same step, the finished retrieval kept for comparison
GenerateAnswerRecorded(r) ==
  /\ GenerateSettles(r)
  /\ runs' = Append(runs, RunRecord)
  /\ UNCHANGED elsewhere

\* no call of the query path sets a timeout: a collaborator that never
\* settles its promise leaves the await pending
Hang ==
  /\ pc \in Awaiting /\ ~hung
  /\ hung' = TRUE
  /\ UNCHANGED <<pc, rl, config, table, topK, asked, query, locals, web, ghosts,
                 trace, outcome, pending, retrievals, runs, elsewhere>>

Settled == {"ok", "throw"}

ConfigValues == {Bool(TRUE), Bool(FALSE), Undefined}

Next ==
  \/ \E line \in Inputs : UserInput(line)
  \/ \E e \in ConfigValues, q \in ConfigValues : setCRAGConfig(e, q)
  \/ \E r \in Settled : Connect(r)
  \/ \E r \in Settled : OpenTable(r)
  \/ \E r \in Settled : GenerateQueryEmbedding(r)
  \/ \E r \in Settled : SearchReturn(r)
  \/ \E reply \in ModelReplies : ModelReturn(reply)
  \/ \E reply \in WebReplies : PerformSearch(reply)
  \/ \E reply \in WebReplies : GetKnowledgeGraph(reply)
  \/ \E reply \in WebReplies : GetFeaturedSnippet(reply)
  \/ \E r \in Settled : GenerateAnswer(r)
  \/ Hang

Spec == Init /\ [][Next]_vars

(***************************************************************************)
(* QueryAnalyzer.analyze called on its own, several times on the same      *)
(* query and chunks.                                                       *)
(***************************************************************************)
MaxRuns == 2

QRenew == <<"r", "e", "n", "e", "w">>

\* the queries analyze is given
Queries == {trim(line) : line \in Inputs} \cup {QRenew}

\* the chunk lists analyze is given: what the index returns, and lists
\* holding a chunk without text
ChunkLists ==
  {vectorSearch(t, TopK) : t \in Tables}
  \cup { << Row(Undefined, 1, "text", 1), Row(Str(T100), 2, "text", 1) >>,
         << Row(Str(T59), 1, "text", 1), Row(Undefined, 2, "image", 1),
            Row(Str(T40), 3, "text", 2) >> }

InitAnalyze ==
  /\ pc = "analyze"
  /\ hung = FALSE
  /\ rl = "closed"
  /\ enableCorrectiveRAG = TRUE
  /\ useQuickAnalysis \in BOOLEAN
  /\ table = <<>>
  /\ asked = 0
  /\ query \in Queries
  /\ localResults \in ChunkLists
  /\ analysis = Undefined
  /\ searchQuery = Undefined
  /\ results = <<>>
  /\ knowledgeGraph = Undefined
  /\ featuredSnippet = Undefined
  /\ returned = NoReturn
  /\ augmentedPrompt = <<>>
  /\ trace = <<>>
  /\ webThrows = 0
  /\ modelReply = NoReply
  /\ failed = "none"
  /\ verdicts = <<>>
  /\ outcome = "none"
  /\ topK = TopK
  /\ pending = <<>>
  /\ engineResults = <<>>
  /\ retrievals = <<>>
  /\ runs = <<>>
  /\ Idle

\* what chat.completions.create can settle with while analyze is run
\* alone: fenced completions of every verdict as well
AnalyzeReplies ==
  ModelReplies
  \cup {[kind |-> "ok", content |-> Str(c)] :
          c \in UNION {FencedCompletions(text) : text \in JsonVerdicts}}

\* analyze(query, retrievedChunks, useQuickAnalysis) up to its await, or to
\* its return when nothing is awaited
Analyze ==
  /\ pc = "analyze"
  /\ Len(verdicts) < MaxRuns
  /\ IF analyzeCallsModel(localResults, useQuickAnalysis)
     THEN /\ pc' = "llm"
          /\ trace' = Append(trace, "llm")
          /\ UNCHANGED <<analysis, verdicts>>
     ELSE /\ pc' = "analyze"
          /\ trace' = trace
          /\ analysis' = analyzeLocally(query, localResults, useQuickAnalysis)
          /\ verdicts' = Append(verdicts,
               analyzeLocally(query, localResults, useQuickAnalysis))
  /\ UNCHANGED <<hung, rl, config, table, topK, asked, query, localResults,
                 searchQuery, returned, augmentedPrompt, web, modelReply,
                 failed, outcome>>
  /\ TrackPending
  /\ UNCHANGED <<retrievals, runs, elsewhere>>

\* evaluateRetrievalQuality returns to the caller of analyze
AnalyzeReturn(reply) ==
  /\ pc = "llm" /\ ~hung
  /\ pc' = "analyze"
  /\ analysis' = analysisOfReply(reply)
  /\ verdicts' = Append(verdicts, analysisOfReply(reply))
  /\ modelReply' = reply
  /\ UNCHANGED <<hung, rl, config, table, topK, asked, query, localResults,
                 searchQuery, returned, augmentedPrompt, web, failed, trace,
                 outcome>>
  /\ TrackPending
  /\ UNCHANGED <<retrievals, runs, elsewhere>>

NextAnalyze ==
  \/ Analyze
  \/ \E reply \in AnalyzeReplies : AnalyzeReturn(reply)
  \/ Hang

SpecAnalyze == InitAnalyze /\ [][NextAnalyze]_vars

(***************************************************************************)
(* Retriever.retrieveContext(query, topK) called with any topK, the same   *)
(* question asked again on the same index.                                 *)
(***************************************************************************)
MaxTopK == 4

\* the question that is repeated
RetrieveQueries == {QTrends}

InitRetrieve ==
  /\ pc = "prompt"
  /\ hung = FALSE
  /\ rl = "open"
  /\ enableCorrectiveRAG \in BOOLEAN
  /\ useQuickAnalysis \in BOOLEAN
  /\ table \in Tables
  /\ asked = 0
  /\ query \in RetrieveQueries
  /\ localResults = <<>>
  /\ analysis = Undefined
  /\ searchQuery = Undefined
  /\ results = <<>>
  /\ knowledgeGraph = Undefined
  /\ featuredSnippet = Undefined
  /\ returned = NoReturn
  /\ augmentedPrompt = <<>>
  /\ trace = <<>>
  /\ webThrows = 0
  /\ modelReply = NoReply
  /\ failed = "none"
  /\ verdicts = <<>>
  /\ outcome = "none"
  /\ topK \in 1..MaxTopK
  /\ pending = <<>>
  /\ engineResults = <<>>
  /\ retrievals = <<>>
  /\ runs = <<>>
  /\ Idle

\* the same question typed again
AskAgain == UserInput(query)

NextRetrieve ==
  \/ AskAgain
  \/ \E r \in Settled : Connect(r)
  \/ \E r \in Settled : OpenTable(r)
  \/ \E r \in Settled : GenerateQueryEmbedding(r)
  \/ \E r \in Settled : SearchReturnRecorded(r)
  \/ \E reply \in ModelReplies : ModelReturn(reply)
  \/ \E reply \in WebReplies : PerformSearch(reply)
  \/ \E reply \in WebReplies : GetKnowledgeGraph(reply)
  \/ \E reply \in WebReplies : GetFeaturedSnippet(reply)
  \/ \E r \in Settled : GenerateAnswer(r)
  \/ Hang

SpecRetrieve == InitRetrieve /\ [][NextRetrieve]_vars

(***************************************************************************)
(* The same question asked twice with corrective RAG enabled and the LLM   *)
(* strategy: the verdict is what varies between the two runs.              *)
(***************************************************************************)
\* the index the two runs search
FuseTables ==
  { << Row(Str(T59), 5, "text", 1), Row(Str(T40), 2, "text", 1) >> }

\* what search(query, options) settles with in the two runs
FuseWebReplies ==
  { [kind |-> "throw"],
    WebReply(WebItems(EngineMaxResults),
             Panel(Str(<<"Ada Lovelace">>), Str(<<"Mathematician">>),
                   Str(<<"English mathematician and writer">>),
                   Str(<<"1815">>)),
             Snippet(Str(<<"Ada Lovelace">>),
                     Str(<<"Wrote the first published program">>),
                     Str(<<"https://example.org/ada">>))) }

\* the completions of the two runs: verdicts that share a suggested query
\* and differ in the other fields, and a call that fails
FuseReplies ==
  {[kind |-> "throw", content |-> Undefined]}
  \cup {[kind |-> "ok", content |-> Str(c)] : c \in JsonVerdicts}

InitFuse ==
  /\ pc = "prompt"
  /\ hung = FALSE
  /\ rl = "open"
  /\ enableCorrectiveRAG = TRUE
  /\ useQuickAnalysis = FALSE
  /\ table \in FuseTables
  /\ asked = 0
  /\ query \in RetrieveQueries
  /\ localResults = <<>>
  /\ analysis = Undefined
  /\ searchQuery = Undefined
  /\ results = <<>>
  /\ knowledgeGraph = Undefined
  /\ featuredSnippet = Undefined
  /\ returned = NoReturn
  /\ augmentedPrompt = <<>>
  /\ trace = <<>>
  /\ webThrows = 0
  /\ modelReply = NoReply
  /\ failed = "none"
  /\ verdicts = <<>>
  /\ outcome = "none"
  /\ topK = TopK
  /\ pending = <<>>
  /\ engineResults = <<>>
  /\ retrievals = <<>>
  /\ runs = <<>>
  /\ Idle

NextFuse ==
  \/ AskAgain
  \/ \E r \in Settled : Connect(r)
  \/ \E r \in Settled : OpenTable(r)
  \/ \E r \in Settled : GenerateQueryEmbedding(r)
  \/ \E r \in Settled : SearchReturn(r)
  \/ \E reply \in FuseReplies : ModelReturn(reply)
  \/ \E reply \in FuseWebReplies : PerformSearch(reply)
  \/ \E reply \in FuseWebReplies : GetKnowledgeGraph(reply)
  \/ \E reply \in FuseWebReplies : GetFeaturedSnippet(reply)
  \/ \E r \in Settled : GenerateAnswerRecorded(r)

SpecFuse == InitFuse /\ [][NextFuse]_vars

\* the scheduler runs every continuation whose promise has settled
Live == Spec /\ WF_vars(Next)

(***************************************************************************)
(* The session while another part of the program is the one that runs      *)
(***************************************************************************)
SessionOff ==
  /\ pc = "off"
  /\ hung = FALSE
  /\ rl = "closed"
  /\ enableCorrectiveRAG = TRUE
  /\ useQuickAnalysis = FALSE
  /\ table = <<>>
  /\ asked = 0
  /\ query = <<>>
  /\ localResults = <<>>
  /\ analysis = Undefined
  /\ searchQuery = Undefined
  /\ results = <<>>
  /\ knowledgeGraph = Undefined
  /\ featuredSnippet = Undefined
  /\ returned = NoReturn
  /\ augmentedPrompt = <<>>
  /\ trace = <<>>
  /\ webThrows = 0
  /\ modelReply = NoReply
  /\ failed = "none"
  /\ verdicts = <<>>
  /\ outcome = "none"
  /\ topK = TopK
  /\ pending = <<>>
  /\ engineResults = <<>>
  /\ retrievals = <<>>
  /\ runs = <<>>

(***************************************************************************)
(* Indexer.chunkText(text, chunkSize, overlap).  A text is a sequence of   *)
(* pieces: a white space character, a sentence terminator, or a word.      *)
(***************************************************************************)
\* text.split(/[.!?]\s+/): a separator is a terminator with white space
\* after it, and the white space is taken as far as it goes
RECURSIVE splitSentences(_)
splitSentences(text) ==
  LET at == {i \in 1..(Len(text) - 1) :
               text[i] \in {".", "!", "?"} /\ text[i + 1] \in Whitespace}
      first == CHOOSE i \in at : \A j \in at : i <= j
  IN  IF at = {} THEN <<text>>
      ELSE <<SubSeq(text, 1, first - 1)>>
             \o splitSentences(trimStart(SubSeq(text, first + 1, Len(text))))

\* currentChunk.split(" ")
RECURSIVE splitWords(_)
splitWords(s) ==
  IF \E i \in 1..Len(s) : s[i] = " "
  THEN LET i == CHOOSE k \in 1..Len(s) :
                  s[k] = " " /\ \A l \in 1..(k - 1) : s[l] # " "
       IN  <<SubSeq(s, 1, i - 1)>> \o splitWords(SubSeq(s, i + 1, Len(s)))
  ELSE <<s>>

\* words.slice(-overlap / 10): the start is truncated towards zero, a
\* negative start counts from the end, and -0 is 0
slice(words, overlap) ==
  LET n == Len(words)
      start == IF overlap >= 10
               THEN (IF n - overlap \div 10 > 0 THEN n - overlap \div 10 ELSE 0)
               ELSE IF overlap > -10 THEN 0
               ELSE (IF (0 - overlap) \div 10 < n
                     THEN (0 - overlap) \div 10 ELSE n)
  IN  SubSeq(words, start + 1, n)

\* the chunk size and the overlap of the default arguments
DefaultChunkSize == 500

DefaultOverlap == 50

MaxTextLen == 7

MaxChunkSize == 3

\* a word of 600 characters, in six pieces
LongWord ==
  [i \in 1..6 |->
     "pneumonoultramicroscopicsilicovolcanoconiosispneumonoultramicroscopicsilicovolcanoconiosisabcdefghij"]

\* the arguments of a call: every text of up to MaxTextLen pieces with a
\* small chunk size, and texts of 600-character words with the defaults
ChunkArguments ==
  ((UNION {[1..n -> {"a", " ", "."}] : n \in 0..MaxTextLen})
     \X (0..MaxChunkSize) \X {0, 10, DefaultOverlap})
  \cup ({ LongWord \o <<".", " ", "a", "?", "\n", "a", "!", " ">>
            \o LongWord,
          LongWord \o <<".", " ", "a", " ", " ", " ", " ", " ", " ", ".",
                        " ", ".", " ">> \o LongWord \o <<".">> }
       \X {DefaultChunkSize} \X {DefaultOverlap})

\* chunkText entered: the text is split and the loop is about to start
InitChunk ==
  /\ SessionOff
  /\ imageProcessor = NotRunning
  /\ indexer = NotRunning
  /\ app = NotRunning
  /\ \E a \in ChunkArguments :
       chunker = [pc |-> "loop",
                  text |-> a[1],
                  chunkSize |-> a[2],
                  overlap |-> a[3],
                  sentences |-> splitSentences(a[1]),
                  at |-> 1,
                  currentChunk |-> <<>>,
                  chunks |-> <<>>]

\* one turn of for (const sentence of sentences)
NextSentence ==
  /\ chunker.pc = "loop"
  /\ chunker.at <= Len(chunker.sentences)
  /\ LET sentence == chunker.sentences[chunker.at]
         currentChunk == chunker.currentChunk
     IN  IF /\ StrLen(currentChunk \o sentence) > chunker.chunkSize
            /\ StrLen(currentChunk) > 0
         THEN chunker' =
                [chunker EXCEPT
                   !.chunks = Append(@, trim(currentChunk)),
                   !.currentChunk =
                     join(slice(splitWords(currentChunk), chunker.overlap),
                          <<" ">>) \o <<" ">> \o sentence,
                   !.at = @ + 1]
         ELSE chunker' =
                [chunker EXCEPT
                   !.currentChunk = currentChunk \o sentence \o <<".", " ">>,
                   !.at = @ + 1]
  /\ UNCHANGED <<session, imageProcessor, indexer, app>>

\* the loop is over: the last chunk is pushed and chunks is returned
ReturnChunks ==
  /\ chunker.pc = "loop"
  /\ chunker.at > Len(chunker.sentences)
  /\ chunker' =
       [chunker EXCEPT
          !.chunks = IF StrLen(trim(chunker.currentChunk)) > 0
                     THEN Append(@, trim(chunker.currentChunk)) ELSE @,
          !.pc = "returned"]
  /\ UNCHANGED <<session, imageProcessor, indexer, app>>

NextChunk == NextSentence \/ ReturnChunks

SpecChunk == InitChunk /\ [][NextChunk]_vars

(***************************************************************************)
(* ImageProcessor.processImages.  imageProcessor holds the object's        *)
(* fields, the locals of the call and the listeners of the process.        *)
(***************************************************************************)
MaxImages == 2

\* ImageProcessor.processImage: the result built from what OCR and the
\* vision model gave for the image (Null: nothing)
processImage(image, ocr, vision) ==
  LET page == ToString(image.pageNumber)
      semanticContext == <<"Image from page ", page, " of the document. ">>
  IN  [pageNumber |-> image.pageNumber,
       imagePath |-> image.path,
       ocrText |-> ocr,
       visionDescription |-> vision,
       combinedDescription |->
         IF Truthy(ocr)
         THEN Str(semanticContext \o ocr.s \o <<". ">>
                  \o (IF Truthy(vision)
                      THEN <<"Visual context: ">> \o vision.s \o <<". ">>
                      ELSE <<>>)
                  \o <<"This image contains the above text content and visual information.">>)
         ELSE IF Truthy(vision)
         THEN Str(semanticContext \o <<"Visual description: ">> \o vision.s
                  \o <<". This image contains visual information that may include diagrams, charts, screenshots, illustrations, or other graphical content relevant to the document.">>)
         ELSE Str(<<"Image from page ", page,
                    " of the document. This image contains visual content that may include diagrams, charts, screenshots, illustrations, or other graphical elements. The image may contain information relevant to the document's content.">>)]

\* processImages(images) called on an ImageProcessor as its constructor
\* left it, in a process that may have listeners of its own
InitImages ==
  /\ SessionOff
  /\ chunker = NotRunning
  /\ indexer = NotRunning
  /\ app = NotRunning
  /\ \E n \in 0..MaxImages, ocr \in BOOLEAN, vision \in BOOLEAN,
        own \in {<<>>, <<"reporter">>} :
       imageProcessor =
         [pc |-> "processImages",
          enableOCR |-> ocr,
          enableVision |-> vision,
          ocrWorker |-> "null",
          images |-> [i \in 1..n |->
                        [path |-> <<"page-", ToString(i), ".png">>,
                         pageNumber |-> i]],
          at |-> 1,
          results |-> <<>>,
          listeners |-> [unhandledRejection |-> own,
                         uncaughtException |-> own]]

\* processImages up to the loop: nothing to do for an empty list; else
\* initializeOCR settles (r: "ok" a worker was created, "unavailable"
\* tesseract.js cannot be imported, "throw" createWorker rejected, both
\* swallowed) and the two listeners are installed
EnterProcessImages(r) ==
  /\ imageProcessor.pc = "processImages"
  /\ IF imageProcessor.images = <<>>
     THEN /\ r = "ok"
          /\ imageProcessor' = [imageProcessor EXCEPT !.pc = "returned"]
     ELSE /\ imageProcessor.enableOCR \/ r = "ok"
          /\ imageProcessor' =
               [imageProcessor EXCEPT
                  !.pc = "loop",
                  !.enableOCR = @ /\ r = "ok",
                  !.ocrWorker = IF imageProcessor.enableOCR /\ r = "ok"
                                THEN "worker" ELSE @,
                  !.listeners =
                    [unhandledRejection |-> Append(@.unhandledRejection,
                                                   "errorHandler"),
                     uncaughtException |-> Append(@.uncaughtException,
                                                  "exceptionHandler")]]
  /\ UNCHANGED <<session, chunker, indexer, app>>

\* one turn of for (const image of images): processImage returns a result
\* (kind "result"), or throws an error the catch block takes for a format
\* error and answers with a vision-only entry (kind "format"), or throws
\* any other error, which is logged (kind "other")
ProcessImage(kind, ocr, vision) ==
  /\ imageProcessor.pc = "loop"
  /\ imageProcessor.at <= Len(imageProcessor.images)
  /\ Truthy(ocr) =>
       /\ kind = "result"
       /\ imageProcessor.enableOCR
       /\ imageProcessor.ocrWorker # "null"
  /\ Truthy(vision) => (kind # "other" /\ imageProcessor.enableVision)
  /\ LET image == imageProcessor.images[imageProcessor.at]
     IN  imageProcessor' =
           [imageProcessor EXCEPT
              !.at = @ + 1,
              !.results =
                IF kind = "result"
                THEN Append(@, processImage(image, ocr, vision))
                ELSE IF kind = "format" /\ Truthy(vision)
                THEN Append(@,
                       [pageNumber |-> image.pageNumber,
                        imagePath |-> image.path,
                        ocrText |-> Null,
                        visionDescription |-> vision,
                        combinedDescription |->
                          Str(<<"[Visual description: ">> \o vision.s
                                \o <<"]">>)])
                ELSE @]
  /\ UNCHANGED <<session, chunker, indexer, app>>

\* after the loop: terminateOCR when there is a worker (r: how
\* worker.terminate() settles), then the two listeners are removed and
\* results is returned; a rejection of terminate() leaves processImages at
\* once
FinishProcessImages(r) ==
  /\ imageProcessor.pc = "loop"
  /\ imageProcessor.at > Len(imageProcessor.images)
  /\ imageProcessor.ocrWorker # "null" \/ r = "ok"
  /\ IF r = "throw"
     THEN imageProcessor' = [imageProcessor EXCEPT !.pc = "threw"]
     ELSE imageProcessor' =
            [imageProcessor EXCEPT
               !.pc = "returned",
               !.ocrWorker = "null",
               !.listeners =
                 [unhandledRejection |->
                    SubSeq(@.unhandledRejection, 1,
                           Len(@.unhandledRejection) - 1),
                  uncaughtException |->
                    SubSeq(@.uncaughtException, 1,
                           Len(@.uncaughtException) - 1)]]
  /\ UNCHANGED <<session, chunker, indexer, app>>

NextImages ==
  \/ \E r \in {"ok", "unavailable", "throw"} : EnterProcessImages(r)
  \/ \E kind \in {"result", "format", "other"},
        ocr \in {Null, Str(<<"Quarterly revenue">>)},
        vision \in {Null, Str(<<"A bar chart">>)} :
       ProcessImage(kind, ocr, vision)
  \/ \E r \in Settled : FinishProcessImages(r)

SpecImages == InitImages /\ [][NextImages]_vars

(***************************************************************************)
(* Indexer.indexPDF.  indexer holds the locals of the call and the rows of *)
(* the documents table; chunkText and processImages run as above.          *)
(***************************************************************************)
\* processImagesFromPDF: the chunk made of a processed image
imageChunk(img) ==
  [text |-> img.combinedDescription,
   contentType |-> "image",
   pageNumber |-> Num(img.pageNumber),
   ocrText |-> img.ocrText,
   visionDescription |-> img.visionDescription,
   combinedDescription |-> Undefined]

\* indexPDF, step 5: the text that is embedded for a chunk
chunkTextOf(chunk) ==
  LET page == IF Truthy(chunk.pageNumber)
              THEN ToString(chunk.pageNumber.n) ELSE "unknown"
      filled(v) == Truthy(v) /\ trim(v.s) # <<>>
      parts ==
        (IF Truthy(chunk.ocrText)
         THEN << <<"Text content: ">> \o chunk.ocrText.s >> ELSE <<>>)
        \o (IF Truthy(chunk.visionDescription)
            THEN << <<"Visual description: ">> \o chunk.visionDescription.s >>
            ELSE <<>>)
        \o (IF Truthy(chunk.pageNumber)
            THEN << <<"From page ", page>> >> ELSE <<>>)
      text ==
        IF filled(chunk.ocrText)
        THEN <<"Image from page ", page, ": ">> \o chunk.ocrText.s
               \o (IF Truthy(chunk.visionDescription)
                   THEN <<" Visual context: ">> \o chunk.visionDescription.s
                   ELSE <<>>)
        ELSE IF filled(chunk.combinedDescription)
        THEN chunk.combinedDescription.s
        ELSE IF filled(chunk.visionDescription)
        THEN <<"Image from page ", page, ": ">> \o chunk.visionDescription.s
        ELSE IF filled(chunk.text) THEN chunk.text.s
        ELSE IF parts # <<>> THEN join(parts, <<". ">>)
        ELSE <<"Image content from page ", page,
               " containing visual information">>
  IN  IF trim(text) = <<>>
      THEN <<"Visual content from page ", page,
             " with graphical elements, diagrams, or illustrations">>
      ELSE text

\* storeInVectorDB: the text field of the row written for a chunk
chunkDataText(chunk) ==
  LET text == IF Truthy(chunk.text) THEN chunk.text
              ELSE chunk.combinedDescription
      semanticParts ==
        (IF Truthy(chunk.ocrText)
         THEN << <<"Contains text: ">> \o chunk.ocrText.s >> ELSE <<>>)
        \o (IF Truthy(chunk.visionDescription)
            THEN << <<"Visual content: ">> \o chunk.visionDescription.s >>
            ELSE <<>>)
        \o (IF Truthy(chunk.pageNumber)
            THEN << <<"From page ", ToString(chunk.pageNumber.n)>> >>
            ELSE <<>>)
  IN  IF Truthy(text) /\ trim(text.s) # <<>> THEN text.s
      ELSE IF semanticParts # <<>> THEN join(semanticParts, <<". ">>)
      ELSE <<"Image content from page ",
             IF Truthy(chunk.pageNumber)
             THEN ToString(chunk.pageNumber.n) ELSE "unknown">>

\* the texts of the PDF files that are indexed: no text, one sentence, and
\* texts of 600-character words that make several chunks
PdfTexts ==
  { <<>>,
    <<"The", " ", "plan", " ", "is", " ", "annual", ".", "\n">>,
    LongWord \o <<".", " ", "a", "?", "\n", "a", "!", " ">> \o LongWord,
    LongWord \o <<".", " ", "a", " ", " ", " ", " ", " ", " ", ".", " ",
                  ".", " ">> \o LongWord \o <<".">> }

\* indexPDF(pdfPath, dbPath) called on an Indexer as its constructor left it
InitIndex ==
  /\ SessionOff
  /\ chunker = NotRunning
  /\ app = NotRunning
  /\ \E ocr \in BOOLEAN, vision \in BOOLEAN :
       imageProcessor =
         [pc |-> "constructed",
          enableOCR |-> ocr,
          enableVision |-> vision,
          ocrWorker |-> "null",
          images |-> <<>>,
          at |-> 1,
          results |-> <<>>,
          listeners |-> [unhandledRejection |-> <<>>,
                         uncaughtException |-> <<>>]]
  /\ \E enable \in BOOLEAN :
       indexer = [pc |-> "extractTextFromPDF",
                  enableImageProcessing |-> enable,
                  allChunks |-> <<>>,
                  validChunkTexts |-> <<>>,
                  embeddings |-> <<>>,
                  documents |-> <<>>]

\* step 1 settles (r "throw": pdf-parse or the file read failed, and
\* indexPDF throws); step 2 enters chunkText with its default arguments
ExtractTextFromPDF(r, text) ==
  /\ indexer.pc = "extractTextFromPDF"
  /\ IF r = "throw"
     THEN /\ indexer' = [indexer EXCEPT !.pc = "threw"]
          /\ UNCHANGED chunker
     ELSE /\ indexer' = [indexer EXCEPT !.pc = "chunkText"]
          /\ chunker' = [pc |-> "loop",
                         text |-> text,
                         chunkSize |-> DefaultChunkSize,
                         overlap |-> DefaultOverlap,
                         sentences |-> splitSentences(text),
                         at |-> 1,
                         currentChunk |-> <<>>,
                         chunks |-> <<>>]
  /\ UNCHANGED <<session, imageProcessor, app>>

\* step 3 once chunkText has returned: extractImagesFromPDF settles (r
\* "throw" is caught and gives no image chunks) with n images, and
\* processImages is called when there are images
ProcessImagesFromPDF(r, n) ==
  /\ indexer.pc = "chunkText"
  /\ chunker.pc = "returned"
  /\ IF indexer.enableImageProcessing /\ r = "ok" /\ n > 0
     THEN /\ indexer' = [indexer EXCEPT !.pc = "processImages"]
          /\ imageProcessor' =
               [imageProcessor EXCEPT
                  !.pc = "processImages",
                  !.images = [i \in 1..n |->
                                [path |-> <<"page-", ToString(i), ".png">>,
                                 pageNumber |-> i]]]
     ELSE /\ indexer' = [indexer EXCEPT !.pc = "chunks"]
          /\ UNCHANGED imageProcessor
  /\ UNCHANGED <<session, chunker, app>>

\* steps 4 and 5: the chunks are put together, their texts are chosen, the
\* empty ones are filtered out and embeddings.create settles (one batch);
\* an embedding is known by the text it was made of
GenerateEmbeddings(r) ==
  /\ \/ indexer.pc = "chunks"
     \/ /\ indexer.pc = "processImages"
        /\ imageProcessor.pc \in {"returned", "threw"}
  /\ LET textChunkObjects ==
           [i \in 1..Len(chunker.chunks) |->
              [text |-> Str(chunker.chunks[i]),
               contentType |-> "text",
               pageNumber |-> Undefined,
               ocrText |-> Undefined,
               visionDescription |-> Undefined,
               combinedDescription |-> Undefined]]
         imageChunks ==
           IF indexer.pc = "processImages" /\ imageProcessor.pc = "returned"
           THEN [i \in 1..Len(imageProcessor.results) |->
                   imageChunk(imageProcessor.results[i])]
           ELSE <<>>
         allChunks == textChunkObjects \o imageChunks
         validChunks ==
           SelectSeq(allChunks, LAMBDA chunk : trim(chunkTextOf(chunk)) # <<>>)
         validChunkTexts ==
           [i \in 1..Len(validChunks) |-> chunkTextOf(validChunks[i])]
     IN  IF r = "throw"
         THEN indexer' = [indexer EXCEPT !.pc = "threw"]
         ELSE indexer' =
                [indexer EXCEPT
                   !.pc = "storeInVectorDB",
                   !.allChunks = validChunks,
                   !.validChunkTexts = validChunkTexts,
                   !.embeddings =
                     [i \in 1..Len(validChunkTexts) |->
                        [of |-> validChunkTexts[i]]]]
  /\ UNCHANGED <<session, chunker, imageProcessor, app>>

\* step 6: connect, dropTable and createTable settle (r "throw": one of
\* connect and createTable rejected) and indexPDF completes
StoreInVectorDB(r) ==
  /\ indexer.pc = "storeInVectorDB"
  /\ IF r = "throw"
     THEN indexer' = [indexer EXCEPT !.pc = "threw"]
     ELSE indexer' =
            [indexer EXCEPT
               !.pc = "completed",
               !.documents =
                 [index \in 1..Len(indexer.allChunks) |->
                    [text |-> chunkDataText(indexer.allChunks[index]),
                     vector |-> indexer.embeddings[index],
                     id |-> index - 1,
                     contentType |-> indexer.allChunks[index].contentType]]]
  /\ UNCHANGED <<session, chunker, imageProcessor, app>>

NextIndex ==
  \/ \E r \in Settled, text \in PdfTexts : ExtractTextFromPDF(r, text)
  \/ NextChunk
  \/ \E r \in Settled, n \in 0..MaxImages : ProcessImagesFromPDF(r, n)
  \/ NextImages
  \/ \E r \in Settled : GenerateEmbeddings(r)
  \/ \E r \in Settled : StoreInVectorDB(r)

SpecIndex == InitIndex /\ [][NextIndex]_vars

(***************************************************************************)
(* main.js: the entry point.  app holds the RAGApplication (pdfPath and    *)
(* dbPath as the environment gives them), the paths that exist on disk,    *)
(* what was written to the console and how the process ended.  The frame   *)
(* lines of the banners and the mark before "Error" are left out of the    *)
(* console.                                                                *)
(***************************************************************************)
\* a mutant of existsSync: every path is found
existsSyncAlways(path, files) == TRUE

\* fs.existsSync(path): false for a path that is not a string
existsSync(path, files) == path.t = "string" /\ path.s \in files

\* node src/main.js started: process.env and the disk are as the user left
\* them, nothing has run yet
InitMain ==
  /\ SessionOff
  /\ chunker = NotRunning
  /\ imageProcessor = NotRunning
  /\ indexer = NotRunning
  /\ \E pdfPath \in {Undefined, Str(<<"./data/sample.pdf">>)},
        dbPath \in {Undefined, Str(<<"./lancedb">>)},
        files \in SUBSET {<<"./data/sample.pdf">>, <<"./lancedb">>} :
       app = [pc |-> "main",
              mode |-> "none",
              pdfPath |-> pdfPath,
              dbPath |-> dbPath,
              files |-> files,
              console |-> <<>>,
              exitCode |-> Null]

\* main() up to its first await: the constructor, the dispatch on the
\* arguments and runIndexing or runQuery up to indexPDF or startQASession
\* (ocr, vision and enable are the settings the Indexer reads from the
\* environment)
Main(args, ocr, vision, enable) ==
  /\ app.pc = "main"
  /\ LET log(text) == [stream |-> "log", text |-> text]
         error(text) == [stream |-> "error", text |-> text]
         mode == IF "--index" \in args THEN "index"
                 ELSE IF "--query" \in args THEN "query"
                 ELSE IF "--help" \in args \/ "-h" \in args THEN "help"
                 ELSE "query"
         constructed ==
           << log(<<"Corrective RAG enabled - will use web search when local documents are insufficient">>) >>
     IN  CASE mode = "index" ->
                LET banner == constructed \o << log(<<"CRAG INDEXING PIPELINE">>) >>
                IN  IF ~existsSync(app.pdfPath, app.files)
                    THEN /\ app' =
                              [app EXCEPT
                                 !.pc = "exited",
                                 !.mode = mode,
                                 !.console = banner \o
                                   << error(<<"Error: PDF file not found at ">>
                                            \o IF app.pdfPath.t = "string"
                                               THEN app.pdfPath.s
                                               ELSE <<"undefined">>),
                                      log(<<"Please provide a PDF file in the correct location">>) >>,
                                 !.exitCode = Num(1)]
                         /\ UNCHANGED <<session, chunker, imageProcessor,
                                        indexer>>
                    ELSE /\ app' = [app EXCEPT !.pc = "indexPDF",
                                               !.mode = mode,
                                               !.console = banner]
                         /\ imageProcessor' =
                              [pc |-> "constructed",
                               enableOCR |-> ocr,
                               enableVision |-> vision,
                               ocrWorker |-> "null",
                               images |-> <<>>,
                               at |-> 1,
                               results |-> <<>>,
                               listeners |-> [unhandledRejection |-> <<>>,
                                              uncaughtException |-> <<>>]]
                         /\ indexer' = [pc |-> "extractTextFromPDF",
                                        enableImageProcessing |-> enable,
                                        allChunks |-> <<>>,
                                        validChunkTexts |-> <<>>,
                                        embeddings |-> <<>>,
                                        documents |-> <<>>]
                         /\ UNCHANGED <<session, chunker>>
           [] mode = "query" ->
                LET banner == constructed \o << log(<<"CRAG QUERY PIPELINE">>),
                                                log(<<"(Corrective RAG)">>) >>
                IN  IF ~existsSync(app.dbPath, app.files)
                    THEN /\ app' =
                              [app EXCEPT
                                 !.pc = "exited",
                                 !.mode = mode,
                                 !.console = banner \o
                                   << error(<<"Error: Vector database not found">>),
                                      log(<<"Please run indexing first: npm run index">>) >>,
                                 !.exitCode = Num(1)]
                         /\ UNCHANGED <<session, chunker, imageProcessor,
                                        indexer>>
                    ELSE /\ app' = [app EXCEPT !.pc = "startQASession",
                                               !.mode = mode,
                                               !.console = banner]
                         /\ pc' = "prompt"
                         /\ rl' = "open"
                         /\ table' \in FuseTables
                         /\ UNCHANGED <<hung, config, asked, query, locals,
                                        web, ghosts, trace, outcome, topK,
                                        pending, retrievals, runs, chunker,
                                        imageProcessor, indexer>>
           [] mode = "help" ->
                /\ app' = [app EXCEPT
                             !.pc = "exited",
                             !.mode = mode,
                             !.console = constructed \o
                               << log(<<"CRAG Application - Corrective Retrieval-Augmented Generation System">>) >>,
                             !.exitCode = Num(0)]
                /\ UNCHANGED <<session, chunker, imageProcessor, indexer>>

\* the call main() awaits has settled: runIndexing or runQuery returns and
\* the process ends, or the error reaches main().catch
MainSettles ==
  LET log(text) == [stream |-> "log", text |-> text]
      error(text) == [stream |-> "error", text |-> text]
  IN  \/ /\ app.pc = "indexPDF"
         /\ indexer.pc = "completed"
         /\ app' = [app EXCEPT
                      !.pc = "exited",
                      !.files = @ \cup {IF app.dbPath.t = "string"
                                        THEN app.dbPath.s
                                        ELSE <<"./lancedb">>},
                      !.console = @ \o
                        << log(<<"Your documents are now indexed and ready for queries!">>),
                           log(<<"To start querying, run: npm start">>) >>,
                      !.exitCode = Num(0)]
         /\ UNCHANGED <<session, chunker, imageProcessor, indexer>>
      \/ /\ app.pc = "indexPDF"
         /\ indexer.pc = "threw"
         /\ app' = [app EXCEPT !.pc = "exited",
                               !.console = @ \o << error(<<"Fatal error:">>) >>,
                               !.exitCode = Num(1)]
         /\ UNCHANGED <<session, chunker, imageProcessor, indexer>>
      \/ /\ app.pc = "startQASession"
         /\ pc = "closed"
         /\ app' = [app EXCEPT !.pc = "exited", !.exitCode = Num(0)]
         /\ UNCHANGED <<session, chunker, imageProcessor, indexer>>

NextMain ==
  \/ \E args \in SUBSET {"--index", "--query", "--help", "-h"},
        ocr \in BOOLEAN, vision \in BOOLEAN, enable \in BOOLEAN :
       Main(args, ocr, vision, enable)
  \/ MainSettles
  \/ \E line \in {QExit, QBlank, QTrends} : UserInput(line)
  \/ \E r \in Settled : Connect(r)
  \/ \E r \in Settled : OpenTable(r)
  \/ \E r \in Settled : GenerateQueryEmbedding(r)
  \/ \E r \in Settled : SearchReturn(r)
  \/ \E reply \in FuseReplies : ModelReturn(reply)
  \/ \E reply \in FuseWebReplies : PerformSearch(reply)
  \/ \E reply \in FuseWebReplies : GetKnowledgeGraph(reply)
  \/ \E reply \in FuseWebReplies : GetFeaturedSnippet(reply)
  \/ \E r \in Settled : GenerateAnswer(r)
  \/ NextIndex

SpecMain == InitMain /\ [][NextMain]_vars


(***************************************************************************)
(* Properties                                                              *)
(***************************************************************************)
WebCalls == {"performSearch", "getKnowledgeGraph", "getFeaturedSnippet"}

RetrievalCalls == {"connect", "openTable", "embed", "search"}

\* retrieveContext has returned a context and the session holds it
ContextReturned == pc = "generate"

\* the verdict says the local documents are enough
VerdictSufficient ==
  /\ analysis.t = "object"
  /\ analysis.requires_web_search = Bool(FALSE)
  /\ analysis.is_sufficient = Bool(TRUE)

\* C1: with corrective RAG enabled, every query whose local retrieval
\* succeeded has had the three web search calls made, each once and before
\* the context was built and returned, whatever the verdict.
C1_WebSearchAlways ==
  (ContextReturned /\ enableCorrectiveRAG) =>
    /\ returned.kind = "fused"
    /\ \A c \in WebCalls : Count(trace, c) = 1
    /\ \A i \in 1..Len(trace) :
         trace[i] \in WebCalls =>
           \E j \in (i + 1)..Len(trace) : trace[j] = "generate"

C1_Witness ==
  /\ ContextReturned /\ enableCorrectiveRAG
  /\ VerdictSufficient
  /\ Count(trace, "performSearch") = 1

\* C2: with corrective RAG enabled, the returned context holds the local
\* header, then the local section, then the web header, then the web
\* section, for any verdict and any outcome of the web search.
C2_BothHeadersInOrder ==
  (ContextReturned /\ enableCorrectiveRAG) =>
    /\ returned.kind = "fused"
    /\ LET c == returned.context.s
           l == returned.localContext.s
           w == returned.webContext.s
       IN  \E i \in 1..Len(c), j \in 1..Len(c) :
             /\ i < j
             /\ c[i] = LocalHeader
             /\ c[j] = WebHeader
             /\ i + 1 + Len(l) < j
             /\ SubSeq(c, i + 2, i + 1 + Len(l)) = l
             /\ SubSeq(c, j + 2, Len(c)) = w

C2_Witness ==
  /\ ContextReturned /\ enableCorrectiveRAG
  /\ VerdictSufficient
  /\ webThrows = 3
  /\ localResults # <<>>

\* C3: if a search() call rejected for the query, retrieveContext still
\* returns a fused context whose web section is empty and whose local
\* section is the join of the retrieved texts.
C3_WebFailureEmptiesWebSection ==
  (ContextReturned /\ enableCorrectiveRAG /\ webThrows > 0) =>
    /\ returned.kind = "fused"
    /\ returned.webContext.s = <<>>
    /\ returned.localContext.s = localContextOf(localResults)

\* the replies that are a failed call or a completion that is not JSON
FailedReplies ==
  {[kind |-> "throw", content |-> Undefined],
   [kind |-> "ok", content |-> Str(<<"I", " ", "cannot", " ", "help">>)],
   [kind |-> "ok",
    content |-> Str(<<"{", "\"relevance_score\"", ":", "8", ",", "}">>)],
   [kind |-> "ok",
    content |-> Str(<<Fence, JsonTag, "\n">> \o JsonNeedsWeb)]}

\* C4: after a failed model call or a completion that is not JSON, analyze
\* has returned relevance_score 5, is_sufficient true, requires_web_search
\* false and suggested_search_query null, nothing was thrown to the
\* session, and the model was called once.
C4_SafeDefaultOnFailure ==
  (modelReply \in FailedReplies) =>
    /\ analysis.t = "object"
    /\ analysis.relevance_score = Num(5)
    /\ analysis.is_sufficient = Bool(TRUE)
    /\ analysis.requires_web_search = Bool(FALSE)
    /\ analysis.suggested_search_query = Null
    /\ outcome = "running"
    /\ Count(trace, "llm") = 1

C4_Witness ==
  /\ modelReply = [kind |-> "ok",
                   content |-> Str(<<"I", " ", "cannot", " ", "help">>)]
  /\ pc = "performSearch"

\* the query holds indicator kw at some position, letter case ignored
HasIndicator(q) ==
  \E k \in 1..Len(webIndicators) :
    \E i \in 1..Len(q) :
      /\ i + Len(webIndicators[k]) - 1 <= Len(q)
      /\ \A j \in 1..Len(webIndicators[k]) :
           toLowerCase(<<q[i + j - 1]>>) = <<webIndicators[k][j]>>

\* the characters of the chunk texts, a chunk without text counting 0
RECURSIVE TextChars(_)
TextChars(chunks) ==
  IF chunks = <<>> THEN 0
  ELSE (IF Head(chunks).text.t = "string"
        THEN StrLen(Head(chunks).text.s) ELSE 0)
       + TextChars(Tail(chunks))

HeuristicRan == useQuickAnalysis /\ verdicts # <<>>

\* C5: the heuristic strategy sets requires_web_search exactly when the
\* query holds an indicator keyword or the chunk texts total fewer than
\* 100 characters.
C5_HeuristicDecision ==
  HeuristicRan =>
    \A n \in 1..Len(verdicts) :
      verdicts[n].requires_web_search =
        Bool(HasIndicator(query) \/ TextChars(localResults) < 100)

C5_Witness ==
  /\ HeuristicRan
  /\ ~HasIndicator(query)
  /\ TextChars(localResults) = 100
  /\ verdicts[1].requires_web_search = Bool(FALSE)

\* C6: in a heuristic verdict is_sufficient is the negation of
\* requires_web_search, relevance_score is 4 with web search and 7 without,
\* and suggested_search_query is the query with web search and null without.
C6_HeuristicConsistent ==
  HeuristicRan =>
    \A n \in 1..Len(verdicts) :
      LET v == verdicts[n]
      IN  /\ v.requires_web_search.t = "boolean"
          /\ v.is_sufficient = Bool(~v.requires_web_search.b)
          /\ v.relevance_score =
               (IF v.requires_web_search.b THEN Num(4) ELSE Num(7))
          /\ v.suggested_search_query =
               (IF v.requires_web_search.b THEN Str(query) ELSE Null)

C6_Witness ==
  /\ HeuristicRan
  /\ query = QTrends
  /\ verdicts[1].requires_web_search = Bool(TRUE)
  /\ verdicts[1].suggested_search_query = Str(QTrends)

\* C7: with useQuickAnalysis set, all runs of analyze on the same query and
\* chunks return the same verdict and the language model is never called
\* nor awaited.
C7_HeuristicDeterministicLocal ==
  useQuickAnalysis =>
    /\ \A m \in 1..Len(verdicts), n \in 1..Len(verdicts) :
         verdicts[m] = verdicts[n]
    /\ Count(trace, "llm") = 0
    /\ pc # "llm"
    /\ modelReply = NoReply

C7_Witness == useQuickAnalysis /\ Len(verdicts) = MaxRuns

\* the web search of the current query has been given its query
SearchQueryChosen ==
  \/ pc \in WebCalls
  \/ ContextReturned /\ returned.kind = "fused"

\* C8: the query given to the web search is the verdict's
\* suggested_search_query when it is a non-empty string, and the user's
\* query when it is null, undefined or empty, as it is after a failed
\* analysis.
C8_SearchQueryFallback ==
  SearchQueryChosen =>
    LET suggested == IF analysis.t = "object"
                     THEN analysis.suggested_search_query ELSE Undefined
    IN  /\ (suggested.t = "string" /\ suggested.s # <<>>) =>
             searchQuery = suggested
        /\ (suggested.t \in {"null", "undefined"}
            \/ (suggested.t = "string" /\ suggested.s = <<>>)) =>
             searchQuery = Str(query)
        /\ modelReply \in FailedReplies => searchQuery = Str(query)
        /\ ContextReturned => returned.webResults.searchQuery = searchQuery

C8_Witness ==
  /\ pc = "performSearch"
  /\ VerdictSufficient
  /\ analysis.suggested_search_query = Str(<<"AI trends 2025 overview">>)
  /\ searchQuery = Str(<<"AI trends 2025 overview">>)

\* C9: when the connection, the table, the embedding or the vector search
\* fails, the session sees a retrieval error, the failed call was made
\* once, and no analysis, web search or generation call was made for the
\* query.
C9_RetrievalFailureSurfaces ==
  (failed # "none") =>
    /\ outcome = "retrieval_error"
    /\ pc = "prompt"
    /\ returned = NoReturn
    /\ \A c \in RetrievalCalls : Count(trace, c) <= 1
    /\ \A c \in WebCalls \cup {"llm", "generate"} : Count(trace, c) = 0

C9_Witness == failed = "embed" /\ outcome = "retrieval_error"

\* C10: every query handed to retrieveContext ends with a returned context
\* or with a retrieval error.
C10_EveryQueryEnds ==
  (pc = "connect") ~> (ContextReturned \/ outcome = "retrieval_error")

\* the external steps of one query, in the order of the code
StepOrder ==
  <<"connect", "openTable", "embed", "search", "llm", "performSearch",
    "getKnowledgeGraph", "getFeaturedSnippet", "generate">>

Rank(call) == CHOOSE i \in 1..Len(StepOrder) : StepOrder[i] = call

\* C11: the external steps of one query start in the fixed order embedding,
\* vector search, analysis, web search, fusion; a step starts only when the
\* previous one has settled, so at most one call is in flight, and it is the
\* one started last.
C11_StepsSequential ==
  /\ Len(pending) <= 1
  /\ \A i \in 1..Len(trace) : \A j \in 1..Len(trace) :
       i < j => Rank(trace[i]) < Rank(trace[j])
  /\ pending # <<>> =>
       (trace # <<>> /\ pending = <<trace[Len(trace)]>>)
  /\ returned.kind # "none" => trace[Len(trace)] = "generate"

C11_Witness ==
  /\ pc = "generate"
  /\ returned.kind = "fused"
  /\ trace = StepOrder
  /\ pending = <<"generate">>

\* searchSimilarDocuments has returned and localResults holds its chunks
AfterSearch ==
  pc \in {"llm", "performSearch", "getKnowledgeGraph", "getFeaturedSnippet",
          "generate"}

\* the pieces of a string between the occurrences of a separator piece
RECURSIVE SplitOn(_, _)
SplitOn(s, sep) ==
  IF \E i \in 1..Len(s) : s[i] = sep
  THEN LET i == CHOOSE k \in 1..Len(s) :
                  /\ s[k] = sep
                  /\ \A l \in 1..(k - 1) : s[l] # sep
       IN  <<SubSeq(s, 1, i - 1)>> \o SplitOn(SubSeq(s, i + 1, Len(s)), sep)
  ELSE <<s>>

\* the local section of what retrieveContext returned
LocalSection ==
  IF returned.kind = "fused" THEN returned.localContext.s
  ELSE returned.context.s

\* the i-th block of the local section is the text of the i-th chunk
SectionFollows(chunks) ==
  IF chunks = <<>> THEN LocalSection = <<>>
  ELSE /\ Len(SplitOn(LocalSection, "\n\n")) = Len(chunks)
       /\ \A i \in 1..Len(chunks) :
            SplitOn(LocalSection, "\n\n")[i] = chunks[i].text.s

\* C12: on an index of N chunks and for 1 <= topK <= N the local retrieval
\* returns exactly topK chunks, the topK closest ones, in non-decreasing
\* distance; analysis and fusion receive them in that order.
C12_TopKClosestFirst ==
  (AfterSearch /\ 1 <= topK /\ topK <= Len(table)) =>
    /\ Len(localResults) = topK
    /\ \A i \in 1..(topK - 1) :
         localResults[i].distance <= localResults[i + 1].distance
    /\ \E f \in [1..topK -> 1..Len(table)] :
         /\ \A i \in 1..topK : \A j \in 1..topK : f[i] = f[j] => i = j
         /\ \A i \in 1..topK : table[f[i]] = localResults[i]
         /\ \A k \in 1..Len(table) :
              (\A i \in 1..topK : f[i] # k) =>
                table[k].distance >= localResults[topK].distance
    /\ (useQuickAnalysis /\ analysis.t = "object") =>
         analysis = quickAnalysis(query, localResults)
    /\ pc = "generate" =>
         /\ returned.chunks = localResults
         /\ SectionFollows(localResults)

C12_Witness ==
  /\ pc = "generate"
  /\ returned.kind = "fused"
  /\ Len(table) = 4
  /\ topK = 3
  /\ Len(localResults) = 3
  /\ localResults[2].distance = localResults[3].distance

\* what retrieveContext returns, computed from the query, the index, the
\* configuration and the collaborators' answers to this query alone
ExpectedReturn ==
  LET chunks == vectorSearch(table, topK)
      verdict == IF analyzeCallsModel(chunks, useQuickAnalysis)
                 THEN analysisOfReply(modelReply)
                 ELSE analyzeLocally(query, chunks, useQuickAnalysis)
  IN  IF enableCorrectiveRAG
      THEN fused(chunks, verdict, searchQueryOf(verdict, query),
                 getSearchContext(results, knowledgeGraph, featuredSnippet))
      ELSE localOnly(chunks)

RetrievalsAgree ==
  /\ \A i \in 1..Len(retrievals) : \A j \in 1..Len(retrievals) :
       retrievals[i] = retrievals[j]
  /\ pc = "generate" => returned = ExpectedReturn

\* C13: queries share no mutable state: what retrieveContext returns is
\* determined by the query, the index, the configuration and the
\* collaborators' answers to that query; the same question on the same index
\* gets the same chunks in the same order with the same distances; no step of
\* a query changes enableCorrectiveRAG or useQuickAnalysis.
C13_NoSharedState == [](RetrievalsAgree) /\ [][UNCHANGED config]_vars

C13_Witness ==
  /\ asked = 2
  /\ pc = "generate"
  /\ Len(retrievals) = 2
  /\ Len(retrievals[1]) >= 2
  /\ modelReply.kind = "throw"

\* the positions of a piece in a string
IndexesOf(s, piece) == {i \in 1..Len(s) : s[i] = piece}

\* the n-th smallest element of a set of positions
Nth(set, n) == CHOOSE p \in set : Cardinality({q \in set : q < p}) = n - 1

\* the results array of the response performSearch received
EngineResults == engineResults[1]

\* a block stands at position p of the web section
BlockAt(w, p, header, text) ==
  /\ w[p] = header
  /\ SubSeq(w, p + 1, p + Len(text)) = text
  /\ w[p + Len(text) + 1] = "\n\n"

\* C14: the web section holds the featured snippet block (if a snippet was
\* found), then the knowledge graph block (if a panel was found), then the
\* web results numbered 1..k in the order of the engine's response, k being
\* at most the requested count, each written as title, URL and content.
C14_WebSectionOrder ==
  (pc = "generate" /\ returned.kind = "fused") =>
    LET w == returned.webContext.s
        fs == IndexesOf(w, "=== FEATURED SNIPPET ===\n")
        kg == IndexesOf(w, "=== KNOWLEDGE GRAPH ===\n")
        sr == IndexesOf(w, "=== SEARCH RESULTS ===\n\n")
        src == IndexesOf(w, "[Web Source ")
        k == Cardinality(src)
    IN  /\ (fs # {}) = Truthy(featuredSnippet)
        /\ fs # {} =>
             /\ fs = {1}
             /\ BlockAt(w, 1, "=== FEATURED SNIPPET ===\n", featuredSnippet.s)
        /\ (kg # {}) = Truthy(knowledgeGraph)
        /\ kg # {} =>
             /\ Cardinality(kg) = 1
             /\ \A p \in kg :
                  /\ BlockAt(w, p, "=== KNOWLEDGE GRAPH ===\n",
                             knowledgeGraph.s)
                  /\ p = IF fs = {} THEN 1 ELSE Len(featuredSnippet.s) + 3
        /\ (sr # {}) = (k > 0)
        /\ Cardinality(sr) <= 1
        /\ \A p \in fs \cup kg : \A q \in sr : p < q
        /\ \A q \in sr : \A p \in src : q < p
        /\ k <= NumResults
        /\ k = IF Len(EngineResults) < NumResults
               THEN Len(EngineResults) ELSE NumResults
        /\ \A i \in 1..k :
             LET p == Nth(src, i)
                 item == EngineResults[i]
                 block == <<ToString(i), ": ">> \o orEmpty(item.title)
                          \o <<"]\n", "URL: ">> \o orEmpty(item.url)
                          \o <<"\n", "Content: ">>
                          \o orEmpty(item.description)
             IN  /\ SubSeq(w, p + 1, p + Len(block)) = block
                 /\ i < k => w[p + Len(block) + 1] = "\n\n---\n\n"
                 /\ i = k => Len(w) = p + Len(block)

C14_Witness ==
  /\ pc = "generate"
  /\ returned.kind = "fused"
  /\ Truthy(featuredSnippet)
  /\ Truthy(knowledgeGraph)
  /\ Len(EngineResults) > NumResults
  /\ Len(results) = NumResults

\* the part of the fused context between the two headers
FusedLocalSection ==
  LET ctx == returned.context.s
      p == CHOOSE i \in 1..Len(ctx) : ctx[i] = WebHeader
  IN  SubSeq(ctx, 3, p - 2)

\* C15: the local section of the fused context is the texts of the retrieved
\* chunks, each whole, one per chunk, in rank order, with a blank line
\* between two texts; the prompt holds the fused context as returned.
C15_LocalSectionVerbatim ==
  (pc = "generate" /\ returned.kind = "fused") =>
    LET ctx == returned.context.s
        chunks == returned.chunks
        blocks == SplitOn(FusedLocalSection, "\n\n")
    IN  /\ chunks = localResults
        /\ ctx[1] = LocalHeader /\ ctx[2] = "\n\n"
        /\ Cardinality(IndexesOf(ctx, WebHeader)) = 1
        /\ IF chunks = <<>> THEN FusedLocalSection = <<>>
           ELSE /\ Len(blocks) = Len(chunks)
                /\ \A i \in 1..Len(chunks) :
                     /\ blocks[i] = chunks[i].text.s
                     /\ StrLen(blocks[i]) = StrLen(chunks[i].text.s)
        /\ SubSeq(augmentedPrompt, 1, 4)
             = SubSeq(augmentQueryWithContext(query, <<>>), 1, 4)
        /\ SubSeq(augmentedPrompt, 5, 4 + Len(ctx)) = ctx
        /\ SubSeq(augmentedPrompt, 5 + Len(ctx), Len(augmentedPrompt))
             = <<"\n\n", "User Question: ">> \o query \o <<"\n\n", "Answer:">>

C15_Witness ==
  /\ pc = "generate"
  /\ returned.kind = "fused"
  /\ Len(returned.chunks) = 4
  /\ \E i \in 1..4 : returned.chunks[i].text.s = <<>>
  /\ \E i \in 1..4 : returned.chunks[i].text.s = T100

\* C16: for a query whose verdict says the local documents are sufficient
\* (requires_web_search = false) no search call is made and the context
\* handed to generation holds the local documents only.
C16_WebSearchOnlyWhenInsufficient ==
  (analysis.t = "object" /\ analysis.requires_web_search = Bool(FALSE)) =>
    /\ \A c \in WebCalls : Count(trace, c) = 0
    /\ pc = "generate" => returned.context.s = localContextOf(localResults)

\* every search() call of the query was answered, with an empty results array
EngineFoundNothing ==
  /\ Len(engineResults) = 3
  /\ \A i \in 1..3 : engineResults[i] = <<>>
  /\ webThrows = 0

\* C17 as stated: when the engine returns zero results the web section of
\* the fused context is empty and retrieveContext returns without an error.
C17_ZeroResultsEmptyWebSection ==
  (pc = "generate" /\ returned.kind = "fused" /\ EngineFoundNothing) =>
    /\ returned.webContext.s = <<>>
    /\ outcome = "running"

\* C17: when the engine returns zero results, no knowledge panel text and no
\* featured snippet, the web section of the fused context is empty, the
\* context ends with the web header, and retrieveContext returns without an
\* error.
C17_NothingFoundEmptyWebSection ==
  (/\ pc = "generate" /\ returned.kind = "fused"
   /\ results = <<>>
   /\ ~Truthy(knowledgeGraph)
   /\ ~Truthy(featuredSnippet)) =>
    /\ returned.webContext.s = <<>>
    /\ returned.context.s
         = <<LocalHeader, "\n\n">> \o LocalSection \o <<"\n\n", WebHeader, "\n\n">>
    /\ outcome = "running"
    /\ failed = "none"

C17_Witness ==
  /\ pc = "generate"
  /\ returned.kind = "fused"
  /\ EngineFoundNothing
  /\ ~Truthy(knowledgeGraph)
  /\ ~Truthy(featuredSnippet)
  /\ returned.webContext.s = <<>>

\* a verdict of the documented shape
WellFormedVerdict(v) ==
  /\ v.t = "object"
  /\ v.relevance_score.t = "number"
  /\ v.relevance_score.n >= 0
  /\ v.relevance_score.n <= 10
  /\ v.is_sufficient.t = "boolean"
  /\ v.requires_web_search.t = "boolean"

\* C18: every verdict analyze returns, under either strategy and for any
\* completion of the language model, has a numeric relevance_score between
\* 0 and 10 and boolean is_sufficient and requires_web_search.
C18_VerdictWellFormed ==
  \A i \in 1..Len(verdicts) : WellFormedVerdict(verdicts[i])

ExitTyped == asked > 0 /\ toLowerCase(query) \in ExitWords

SessionEnded ==
  /\ pc = "closed"
  /\ rl = "closed"
  /\ trace = <<>>
  /\ pending = <<>>
  /\ outcome = "exit"

\* C19: a line that is exit or quit once trimmed and lowered ends the
\* session: the loop is left, the console interface is closed, no retrieval
\* or generation call is made for that line, and nothing runs afterwards.
C19_ExitEndsSession ==
  /\ [](ExitTyped => SessionEnded)
  /\ [](pc = "closed" => (ExitTyped /\ SessionEnded))
  /\ [](rl = "closed" => pc = "closed")
  /\ [][pc # "closed"]_vars

C19_Witness ==
  /\ asked = 2
  /\ query = <<"E", "x", "i", "t">>
  /\ SessionEnded

\* C20: the next line is read only when the calls of the previous one have
\* settled: a line is read at the prompt with no call in flight and the
\* previous question answered or failed, and a question is in flight exactly
\* while one of its calls is awaited.
C20_OneQueryAtATime ==
  /\ [](pc \in {"prompt", "closed"} => pending = <<>>)
  /\ [](outcome = "running" <=> pc \in Awaiting)
  /\ [][asked' # asked =>
          /\ asked' = asked + 1
          /\ pc = "prompt"
          /\ pending = <<>>
          /\ outcome # "running"]_vars

C20_Witness ==
  /\ asked = 2
  /\ pc = "getKnowledgeGraph"
  /\ pending = <<"getKnowledgeGraph">>
  /\ outcome = "running"

\* C22: the heuristic strategy asks for a web search whenever an indicator
\* term occurs anywhere in the query with letter case ignored, in upper case
\* ("NEWS") and inside a longer word ("know", "renew") as well, whatever the
\* chunks hold.
C22_KeywordSubstringMatch ==
  /\ HasIndicator(QNews) /\ HasIndicator(QKnow) /\ HasIndicator(QRenew)
  /\ (HeuristicRan /\ HasIndicator(query)) =>
       \A n \in 1..Len(verdicts) :
         /\ verdicts[n].requires_web_search = Bool(TRUE)
         /\ verdicts[n].is_sufficient = Bool(FALSE)

C22_Witness ==
  /\ HeuristicRan
  /\ query \in {QNews, QKnow, QRenew}
  /\ TextChars(localResults) >= 100
  /\ verdicts[1].requires_web_search = Bool(TRUE)


\* the verdict of the last run came from the model's reply
LastVerdictFromModel ==
  /\ pc = "analyze"
  /\ ~useQuickAnalysis
  /\ ~promptThrows(localResults)
  /\ Len(verdicts) > 0
  /\ modelReply.kind = "ok"

\* the object the JSON text denotes, read member by member
Denoted(text) ==
  LET members == SelectSeq(SubSeq(text, 2, Len(text) - 1),
                           LAMBDA p : p \notin Whitespace)
  IN  Verdict(MemberValue(members, "relevance_score"),
              MemberValue(members, "is_sufficient"),
              MemberValue(members, "requires_web_search"),
              MemberValue(members, "reasoning"),
              MemberValue(members, "suggested_search_query"))

\* C24: a completion that wraps a JSON verdict in a fenced code block, with
\* or without the json tag and with or without text around the fence, yields
\* the verdict the bare JSON text yields, and never the safe default.
C24_FencedCompletionTolerated ==
  LastVerdictFromModel =>
    \A text \in JsonVerdicts :
      /\ (modelReply.content = Str(text)
            => verdicts[Len(verdicts)] = Denoted(text))
      /\ (modelReply.content.t = "string"
          /\ modelReply.content.s \in FencedCompletions(text))
            => /\ verdicts[Len(verdicts)] = Denoted(text)
               /\ verdicts[Len(verdicts)] # safeDefault

C24_Witness ==
  /\ LastVerdictFromModel
  /\ modelReply.content.t = "string"
  /\ modelReply.content.s =
       Fenced(<<"Here", " ", "you", " ", "go", ":", "\n">>, <<"\n">>,
              JsonNeedsWeb \o <<"\n">>, <<"\n", "Done">>)
  /\ verdicts[Len(verdicts)].requires_web_search = Bool(TRUE)
  /\ verdicts[Len(verdicts)].suggested_search_query =
       Str(<<"AI trends 2025 overview">>)


\* the line typed last was empty once trimmed
EmptyQueryTyped == asked > 0 /\ query = <<>>

\* C25: a query that is empty after trimming never reaches the retriever: the
\* session reports it as invalid and is back at the prompt with the interface
\* open, and no connection, embedding, vector search, analysis, web search or
\* generation call has been started for it.
C25_EmptyQueryNeverRetrieved ==
  EmptyQueryTyped =>
    /\ outcome = "invalid"
    /\ pc = "prompt"
    /\ rl = "open"
    /\ trace = <<>>
    /\ pending = <<>>
    /\ returned = NoReturn
    /\ augmentedPrompt = <<>>

\* the second line typed was blank, after a first one that was answered
C25_Witness ==
  /\ EmptyQueryTyped
  /\ asked = 2
  /\ outcome = "invalid"
  /\ pc = "prompt"


\* the query typed last ended in the catch block of the loop
ErrorReported == outcome \in {"retrieval_error", "generation_error"}

\* C26: an error raised while a query is handled, in retrieval or in
\* generation, does not end the session: it is reported, the loop is back at
\* the prompt with the interface open and nothing in flight, and the
\* interface is closed by no step other than reading exit or quit.
C26_ErrorKeepsSession ==
  /\ [](ErrorReported =>
          /\ pc = "prompt"
          /\ rl = "open"
          /\ pending = <<>>
          /\ ~ExitTyped)
  /\ [][rl' # rl => (pc = "prompt" /\ toLowerCase(query') \in ExitWords)]_vars

\* a failed generation reported on the first question, the prompt open for
\* the second
C26_Witness ==
  /\ outcome = "generation_error"
  /\ asked = 1
  /\ pc = "prompt"
  /\ rl = "open"


\* the context returned with corrective RAG disabled
LocalOnlyReturned == ContextReturned /\ ~enableCorrectiveRAG

\* C27: with corrective RAG disabled through setCRAGConfig, retrieveContext
\* makes no analysis call and no web search call and returns the chunk
\* texts joined by blank lines, without section headers, with webResults and
\* analysis null; setCRAGConfig sets the options it is passed and leaves an
\* option it is not passed, and everything else, as it was.
C27_DisabledReturnsLocalOnly ==
  /\ [](LocalOnlyReturned =>
          LET ctx == returned.context.s
              chunks == returned.chunks
          IN  /\ returned.kind = "local"
              /\ chunks = localResults
              /\ IF chunks = <<>> THEN ctx = <<>>
                 ELSE /\ Len(SplitOn(ctx, "\n\n")) = Len(chunks)
                      /\ \A i \in 1..Len(chunks) :
                           SplitOn(ctx, "\n\n")[i] = chunks[i].text.s
              /\ \A i \in 1..Len(ctx) : ctx[i] \notin {LocalHeader, WebHeader}
              /\ returned.webResults = Null
              /\ returned.analysis = Null
              /\ \A c \in WebCalls \cup {"llm"} : Count(trace, c) = 0
              /\ trace = <<"connect", "openTable", "embed", "search",
                           "generate">>)
  /\ [][\A e \in ConfigValues, q \in ConfigValues :
          setCRAGConfig(e, q) =>
            /\ enableCorrectiveRAG' =
                 (IF e = Undefined THEN enableCorrectiveRAG ELSE e = Bool(TRUE))
            /\ useQuickAnalysis' =
                 (IF q = Undefined THEN useQuickAnalysis ELSE q = Bool(TRUE))
            /\ UNCHANGED <<pc, rl, table, topK, asked, query, locals, web,
                           trace, outcome, pending>>]_vars
  /\ [][config' # config => pc = "prompt" /\ pc' = "prompt"]_vars

\* two chunks returned with corrective RAG disabled and the quick strategy
\* left as the constructor set it
C27_Witness ==
  /\ LocalOnlyReturned
  /\ ~useQuickAnalysis
  /\ Len(returned.chunks) = 2
  /\ returned.context.s = T40 \o <<"\n\n">> \o T59


\* two verdicts that differ at most in relevance_score, is_sufficient,
\* requires_web_search and reasoning
SameSuggestedQuery(a, b) ==
  /\ a.analysis.t = "object"
  /\ b.analysis.t = "object"
  /\ a.analysis.suggested_search_query = b.analysis.suggested_search_query

\* the search engine answered the calls of the two runs alike
SameAnswers(a, b) ==
  \/ a.answers[1] = <<>>
  \/ b.answers[1] = <<>>
  \/ a.answers = b.answers

\* C23: two runs of retrieveContext on the same question, index and
\* configuration whose verdicts carry the same suggested_search_query, and
\* which the search engine answers alike, make the same external calls with
\* the same search query and return the same context, whatever the other
\* fields of the two verdicts are.
C23_VerdictActsThroughSearchQuery ==
  \A i \in 1..Len(runs) : \A j \in 1..Len(runs) :
    (SameSuggestedQuery(runs[i], runs[j]) /\ SameAnswers(runs[i], runs[j])) =>
      /\ runs[i].calls = runs[j].calls
      /\ runs[i].searchQuery = runs[j].searchQuery
      /\ runs[i].kind = runs[j].kind
      /\ runs[i].context = runs[j].context

\* a run told the documents are sufficient and a run told a web search is
\* required, both with the same suggested query and the same context
C23_Witness ==
  /\ Len(runs) = 2
  /\ SameSuggestedQuery(runs[1], runs[2])
  /\ runs[1].analysis.suggested_search_query =
       Str(<<"AI trends 2025 overview">>)
  /\ runs[1].analysis.requires_web_search = Bool(FALSE)
  /\ runs[2].analysis.requires_web_search = Bool(TRUE)
  /\ runs[1].analysis.reasoning # runs[2].analysis.reasoning
  /\ runs[1].answers = runs[2].answers
  /\ runs[1].answers[2] # <<>>
  /\ runs[1].context = runs[2].context


\* the sentences of the text that hold more than white space
RealSentences ==
  SelectSeq(chunker.sentences, LAMBDA sentence : trim(sentence) # <<>>)

\* every sentence stands in a chunk, a later sentence never in an earlier
\* chunk than the sentence before it
SentencesKeptInOrder ==
  \/ RealSentences = <<>>
  \/ \E f \in [1..Len(RealSentences) -> 1..Len(chunker.chunks)] :
       /\ \A i \in 1..Len(RealSentences) :
            includes(chunker.chunks[f[i]], trim(RealSentences[i]))
       /\ \A i \in 1..(Len(RealSentences) - 1) : f[i] <= f[i + 1]

\* C30: what chunkText returns loses no content: every sentence of the text
\* stands in a returned chunk, in the original order, and no returned chunk
\* is empty after trimming.
C30_NoLossNoEmptyChunk ==
  (chunker.pc = "returned") =>
    /\ SentencesKeptInOrder
    /\ \A k \in 1..Len(chunker.chunks) : trim(chunker.chunks[k]) # <<>>

\* the same without the demand on empty chunks
C30_SentencesKept == (chunker.pc = "returned") => SentencesKeptInOrder

\* an empty chunk returned for the default chunk size and overlap
C30_EmptyChunkWithDefaults ==
  /\ chunker.pc = "returned"
  /\ chunker.chunkSize = DefaultChunkSize
  /\ chunker.overlap = DefaultOverlap
  /\ \E k \in 1..Len(chunker.chunks) : chunker.chunks[k] = <<>>


\* processImages has returned or thrown
ProcessImagesLeft == imageProcessor.pc \in {"returned", "threw"}

\* C29: whenever processImages returns or throws, the OCR worker it created
\* has been terminated (ocrWorker is null) and the two process listeners it
\* installed have been removed.
C29_ProcessLeftAsFound ==
  ProcessImagesLeft =>
    /\ imageProcessor.ocrWorker = "null"
    /\ \A i \in 1..Len(imageProcessor.listeners.unhandledRejection) :
         imageProcessor.listeners.unhandledRejection[i] # "errorHandler"
    /\ \A i \in 1..Len(imageProcessor.listeners.uncaughtException) :
         imageProcessor.listeners.uncaughtException[i] # "exceptionHandler"

\* the same for the calls that return
C29_CleanOnReturn ==
  (imageProcessor.pc = "returned") =>
    /\ imageProcessor.ocrWorker = "null"
    /\ \A i \in 1..Len(imageProcessor.listeners.unhandledRejection) :
         imageProcessor.listeners.unhandledRejection[i] # "errorHandler"
    /\ \A i \in 1..Len(imageProcessor.listeners.uncaughtException) :
         imageProcessor.listeners.uncaughtException[i] # "exceptionHandler"


\* indexPDF has completed
IndexCompleted == indexer.pc = "completed"

\* C28: after indexPDF completes, the table holds one row per chunk that
\* was embedded, and the vector of each row is the embedding of exactly the
\* text stored in that row's text field, for text chunks and image chunks
\* alike.
C28_RowTextIsEmbeddedText ==
  IndexCompleted =>
    /\ Len(indexer.documents) = Len(indexer.validChunkTexts)
    /\ \A i \in 1..Len(indexer.documents) :
         indexer.documents[i].vector = [of |-> indexer.documents[i].text]

\* the same for the order of the rows alone: row i carries the embedding of
\* the i-th text that was embedded
C28_RowsAligned ==
  IndexCompleted =>
    /\ Len(indexer.documents) = Len(indexer.validChunkTexts)
    /\ \A i \in 1..Len(indexer.documents) :
         indexer.documents[i].vector = [of |-> indexer.validChunkTexts[i]]

\* the same for the rows of text chunks that hold text
C28_TextRowsEmbedTheirText ==
  IndexCompleted =>
    \A i \in 1..Len(indexer.documents) :
      (indexer.documents[i].contentType = "text"
       /\ indexer.allChunks[i].text.s # <<>>)
        => indexer.documents[i].vector = [of |-> indexer.documents[i].text]


\* an image row whose vector is the embedding of another text than its own
C28_ImageRowEmbedsOtherText ==
  /\ IndexCompleted
  /\ \E i \in 1..Len(indexer.documents) :
       /\ indexer.documents[i].contentType = "image"
       /\ Truthy(indexer.allChunks[i].ocrText)
       /\ indexer.documents[i].vector # [of |-> indexer.documents[i].text]


\* query mode was chosen and the path of the vector database is not on disk
DatabaseNotFound ==
  /\ app.mode = "query"
  /\ (app.dbPath.t # "string" \/ app.dbPath.s \notin app.files)

\* the two lines runQuery writes when it does not find the database
NotFoundReport ==
  << [stream |-> "error", text |-> <<"Error: Vector database not found">>],
     [stream |-> "log",
      text |-> <<"Please run indexing first: npm run index">>] >>

\* C21: query mode never starts the interactive session when the vector
\* database path does not exist: it reports that the database was not found,
\* tells the user to run indexing first, and exits with a failure status
\* without any retrieval being attempted.
C21_NoSessionWithoutDatabase ==
  DatabaseNotFound =>
    /\ app.pc = "exited"
    /\ app.exitCode = Num(1)
    /\ Len(app.console) >= 2
    /\ SubSeq(app.console, Len(app.console) - 1, Len(app.console))
         = NotFoundReport
    /\ pc = "off"
    /\ rl = "closed"
    /\ asked = 0
    /\ trace = <<>>
    /\ pending = <<>>

\* the default query mode with DB_PATH set to a directory that is missing
C21_Witness ==
  /\ DatabaseNotFound
  /\ app.dbPath = Str(<<"./lancedb">>)
  /\ app.pc = "exited"
  /\ app.exitCode = Num(1)

====
